---- MODULE Spec2Model ----
(***************************************************************************)
(* A model of the Brief VM, direct-framing variant (src/src/Brief.cpp),    *)
(* built against the configuration constants of Brief.h.                   *)
(*                                                                         *)
(* The VM state is carried through the C functions as one record `st`;     *)
(* every C function f becomes an operator f(st, ...) returning the state   *)
(* after the call, a returned value being left in st.ret.  The module's    *)
(* variables are the fields of that record plus the position of the        *)
(* super-loop and the observations the properties are stated over.         *)
(*                                                                         *)
(* A C local `T x = e; ...rest...` is written Only({ rest : x \in {e} }):  *)
(* x is bound to the value of e, which is computed once, and rest is the   *)
(* value of the whole; a sequence of locals reads from the innermost line  *)
(* outwards.                                                               *)
(***************************************************************************)
EXTENDS Integers, Sequences, FiniteSets, TLC

(* ---------------- configuration (Brief.h) ---------------- *)

MEM_SIZE == 512

DATA_STACK_SIZE == 4

RETURN_STACK_SIZE == 4

MAX_PRIMITIVES == 128

MAX_INTERRUPTS == 6

BOOT_EVENT_ID == 255

VM_EVENT_ID == 254

VM_ERROR_RETURN_STACK_UNDERFLOW == 0

VM_ERROR_RETURN_STACK_OVERFLOW == 1

VM_ERROR_DATA_STACK_UNDERFLOW == 2

VM_ERROR_DATA_STACK_OVERFLOW == 3

VM_ERROR_OUT_OF_MEMORY == 4

(* ---------------- bounds of the exploration ---------------- *)

\* error() calls nested deeper than this are reported as unbounded recursion
MaxErrorNest == 3

\* frames the host sends in the "mix", "stack" and "calls" scenarios (short frames)
MaxFramesMix == 3

\* frames the host sends in the "fill" scenario (long definitions that fill memory)
MaxFramesFill == 5

\* frames the host sends in the "edge" scenario (the dictionary filled up to its last
\* two bytes)
MaxFramesEdge == 7

\* frames the host sends in the "long" scenario (an event of 255 body bytes)
MaxFramesLong == 2

\* interpreter steps of one exec() that are explored
MaxSteps == 40

\* the same in the "long" scenario
MaxStepsLong == 800

\* runs of the loop word that are explored
MaxLoopIterations == 2

\* frames the host sends in the "ops" scenario (single instructions at work)
MaxFramesOps == 2

\* frames the host has sent at the end of the "ticks" scenario (two of them before the
\* exploration starts: the loop word and the setLoop)
MaxFramesTicks == 4

\* frames the host sends in the "isr" scenario (a handler word, its attachment, and
\* the frames the interrupts strike)
MaxFramesIsr == 4

\* interrupts the platform raises in one behaviour
MaxIrqs == 1

\* frames and stray bytes the peer puts on the line in the SLIP scenario
MaxSlipSends == 2

(* ---------------- machine integers ---------------- *)

\* conversion to int16_t (two's complement wrap-around)
W16(x) == ((x + 32768) % 65536) - 32768

\* conversion to uint8_t
U8(x) == x % 256

\* conversion to int8_t
S8(x) == IF U8(x) >= 128 THEN U8(x) - 256 ELSE U8(x)

\* conversion to uint16_t
U16(x) == x % 65536

RECURSIVE Pow2(_)
Pow2(n) == IF n <= 0 THEN 1 ELSE 2 * Pow2(n - 1)

\* bitwise operators of C on 16-bit operands; op is "and", "or" or "xor"
RECURSIVE BitOp(_, _, _, _)
BitOp(op, a, b, n) ==
    IF n = 0 THEN 0
    ELSE LET x == a % 2
             y == b % 2
             z == IF op = "and" THEN (IF x = 1 /\ y = 1 THEN 1 ELSE 0)
                  ELSE IF op = "or" THEN (IF x = 1 \/ y = 1 THEN 1 ELSE 0)
                  ELSE (IF x # y THEN 1 ELSE 0)
         IN  z + 2 * BitOp(op, a \div 2, b \div 2, n - 1)

And16(a, b) == W16(BitOp("and", U16(a), U16(b), 16))

Or16(a, b) == W16(BitOp("or", U16(a), U16(b), 16))

Xor16(a, b) == W16(BitOp("xor", U16(a), U16(b), 16))

\* C's integer division and remainder truncate toward zero
Abs(x) == IF x < 0 THEN -x ELSE x

TruncDiv(a, b) == LET q == Abs(a) \div Abs(b) IN IF (a < 0) = (b < 0) THEN q ELSE -q

TruncMod(a, b) == a - b * TruncDiv(a, b)

\* the one element of a singleton set
Only(S) == CHOOSE e \in S : TRUE

(* ---------------- variables ---------------- *)

VARIABLES
    memory,          \* uint8_t memory[MEM_SIZE]
    dstack,          \* int16_t dstack[DATA_STACK_SIZE]
    s,               \* data stack pointer, as the index s - dstack (-1: empty)
    rstack,          \* int16_t rstack[RETURN_STACK_SIZE]
    r,               \* return stack pointer, as the index r - rstack
    p,               \* program counter
    here,            \* dictionary 'here' pointer
    last,            \* last definition address
    eventBuffer,     \* index into event buffer
    loopword,        \* address of loop word
    loopIterations,  \* number of iterations
    isrs,            \* int16_t isrs[MAX_INTERRUPTS]
    out,             \* bytes written to Serial during the current call of loop()
    pc,              \* position of the super-loop: "idle", "run", "loopword"; or why it
                     \* never returns: "recursion" (error() recursing without end),
                     \* "nullcall" (an instruction slot that holds no function)
    ctx,             \* what run() is executing: "frame", "loop" or "none"
    steps,           \* iterations of run() made by the current exec()
    host,            \* scenario the host plays: one of Hosts, or "ticks"
    sent,            \* frames the host has sent
    oob,             \* the arrays ("memory", "dstack", "rstack", "isrs") outside of which a
                     \* load or store has happened
    lastErr,         \* the most recent completed error() call: its code and its bytes
    frame,           \* the frame of the current call of loop() and what became of it
    attached,        \* trigger mode the platform holds for each interrupt line (-1: none)
    did,             \* "store", "forget", "reset": what the current call of loop() executed
    ever,            \* the same, since boot
    defs,            \* the definitions committed since boot: where, and the bytes
    built,           \* the id and the body bytes handed to eventHeader, eventBody8 and
                     \* eventBody16 since the last eventHeader, 16-bit values high byte
                     \* first; <<>> when no event is being built or something else
                     \* intervened (an error, another event, a frame, store, forget, reset)
    forgot,          \* <<a>> when the last thing that moved here was a forget() setting it
                     \* to a; <<>> after a frame was taken in or resetBoard() ran
    under,           \* while an interrupt handler runs: where loop() was interrupted (pc,
                     \* ctx, steps) and what the handler found (p, the stacks, the
                     \* dictionary); pc is "none" when no handler runs; fired counts the
                     \* interrupts taken since boot
    slip,            \* the SLIP-framed transport (ReflectaFramesSerial): its globals, the
                     \* bytes on the serial line in both directions, and what it reported
    ticks            \* k: the runs of the loop word begun since an immediate frame last
                     \* executed setLoop() (-1: it never did); reset: the loop word itself
                     \* has executed setLoop() or resetBoard() since; base: the value of k
                     \* from which the runs are explored

vars == <<memory, dstack, s, rstack, r, p, here, last, eventBuffer, loopword,
          loopIterations, isrs, out, pc, ctx, steps, host, sent, oob, lastErr,
          frame, attached, did, ever, defs, built, forgot, under, slip, ticks>>

(* ---------------- undefined behaviour ---------------- *)

\* values an indeterminate read may yield (a missing return value, a cell outside an array)
UBVals == {0, -1}

\* where a store outside an array may land: -1 outside the modelled state, else a cell of memory
WildTargets == {-1, 1}

\* the choices one step leaves to the build: indeterminate value, wild-store target, and
\* whether the arguments of a call are evaluated right to left
Oracles == [garb : UBVals, wild : WildTargets, rtl : BOOLEAN]

NoErr == [code |-> -1, bytes |-> <<>>]

NoTicks == [k |-> -1, reset |-> FALSE, base |-> 0]

\* the record the C functions work on
VM(o) ==
    [memory |-> memory, dstack |-> dstack, s |-> s, rstack |-> rstack, r |-> r, p |-> p,
     here |-> here, last |-> last, eventBuffer |-> eventBuffer, loopword |-> loopword,
     loopIterations |-> loopIterations, isrs |-> isrs, out |-> out, oob |-> oob,
     lastErr |-> lastErr, attached |-> attached, did |-> did, forgot |-> forgot,
     ret |-> 0, nest |-> 0, crashed |-> FALSE, nullcall |-> FALSE, snap |-> <<>>,
     garb |-> o.garb, wild |-> o.wild, rtl |-> o.rtl]

\* a store through a pointer that is outside its array
WildStore(st, v, array) ==
    IF st.wild \in 0 .. MEM_SIZE - 1
    THEN [st EXCEPT !.oob = @ \cup {array}, !.memory[st.wild] = U8(v)]
    ELSE [st EXCEPT !.oob = @ \cup {array}]

\* Serial.write(b)
SerialWrite(st, b) == [st EXCEPT !.out = Append(@, U8(b))]

(* ---------------- memory, stacks, events (mutually recursive through error) -------- *)

RECURSIVE error(_, _)
RECURSIVE event(_, _, _)
RECURSIVE memget(_, _)
RECURSIVE memset(_, _, _)
RECURSIVE push(_, _)
RECURSIVE pop(_)
RECURSIVE eventHeader(_)
RECURSIVE eventBody8(_)
RECURSIVE eventBody16(_)
RECURSIVE eventFooter(_)
RECURSIVE FooterLoop(_, _, _)

\* uint8_t memget(int16_t address)
memget(st, address) ==
    IF address < 0 \/ address >= MEM_SIZE
    THEN [error(st, VM_ERROR_OUT_OF_MEMORY) EXCEPT !.ret = 0]
    ELSE [st EXCEPT !.ret = st.memory[address]]

\* void memset(int16_t address, uint8_t value): no check of address < 0
memset(st, address, value) ==
    IF address >= MEM_SIZE
    THEN error(st, VM_ERROR_OUT_OF_MEMORY)
    ELSE IF address < 0
         THEN WildStore(st, value, "memory")
         ELSE [st EXCEPT !.memory[address] = U8(value)]

\* *(dstack + i) = x
dstore(st, i, x) ==
    IF i \in 0 .. DATA_STACK_SIZE - 1
    THEN [st EXCEPT !.dstack[i] = W16(x)]
    ELSE WildStore(st, x, "dstack")

\* *(dstack + i), left in ret
dload(st, i) ==
    IF i \in 0 .. DATA_STACK_SIZE - 1
    THEN [st EXCEPT !.ret = st.dstack[i]]
    ELSE [st EXCEPT !.ret = st.garb, !.oob = @ \cup {"dstack"}]

\* void push(int16_t x): the test lets s reach dstack + DATA_STACK_SIZE
push(st, x) ==
    IF st.s >= DATA_STACK_SIZE
    THEN error(st, VM_ERROR_DATA_STACK_OVERFLOW)
    ELSE dstore([st EXCEPT !.s = @ + 1], st.s + 1, x)

\* int16_t pop(): the error branch returns no value
pop(st) ==
    IF st.s < 0
    THEN [error(st, VM_ERROR_DATA_STACK_UNDERFLOW) EXCEPT !.ret = st.garb]
    ELSE [dload(st, st.s) EXCEPT !.s = @ - 1]

\* memset(c++, v) for a cursor c kept in eventBuffer
StoreCursor(st, v) == memset([st EXCEPT !.eventBuffer = W16(@ + 1)], st.eventBuffer, v)

\* memset(eventBuffer++, pop()): the two arguments are evaluated in either order
StoreAtCursor(st) ==
    IF st.rtl
    THEN Only({ StoreCursor(s1, s1.ret) : s1 \in {pop(st)} })
    ELSE Only({ memset(s1, st.eventBuffer, s1.ret)
                : s1 \in {pop([st EXCEPT !.eventBuffer = W16(@ + 1)])} })

\* void eventHeader()
eventHeader(st) == StoreAtCursor([st EXCEPT !.eventBuffer = st.here])

\* void eventBody8()
eventBody8(st) == StoreAtCursor(st)

\* eventBody16() storing the low byte first
eventBody16LowFirst(st) ==
    Only({ Only({ StoreCursor(s2, U8(s1.ret \div 256))
                  : s2 \in {StoreCursor(s1, U8(s1.ret))} })
           : s1 \in {pop(st)} })

\* void eventBody16()
eventBody16(st) ==
    Only({ Only({ StoreCursor(s2, U8(s1.ret))
                  : s2 \in {StoreCursor(s1, U8(s1.ret \div 256))} })
           : s1 \in {pop(st)} })

\* for (i = 0; i < len; i++) Serial.write(memget(here + i));
FooterLoop(st, i, len) ==
    IF i >= len \/ st.crashed THEN st
    ELSE Only({ FooterLoop(SerialWrite(s1, s1.ret), i + 1, len)
                : s1 \in {memget(st, W16(st.here + i))} })

\* void eventFooter()
eventFooter(st) ==
    Only({ FooterLoop(SerialWrite(st, len - 1), 0, len)
           : len \in {U8(st.eventBuffer - st.here)} })

\* the body of event() after the header: nothing, one byte or two
EventBody(st, val) ==
    IF val # 0
    THEN IF val >= -128 /\ val <= 127    \* INT8_MIN, INT8_MAX
         THEN eventBody8(push(st, val))
         ELSE eventBody16(push(st, val))
    ELSE st

\* void event(uint8_t id, int16_t val)
event(st, id, val) == eventFooter(EventBody(eventHeader(push(st, U8(id))), val))

\* void error(uint8_t code): calls event(code, VM_EVENT_ID).  A call nested deeper than
\* MaxErrorNest stands for recursion that does not return (crashed); snap keeps the
\* state in which it goes on.
error(st, code) ==
    IF st.crashed THEN st
    ELSE IF st.nest >= MaxErrorNest THEN [st EXCEPT !.crashed = TRUE, !.snap = st]
    ELSE Only({ IF s1.crashed THEN s1
                ELSE [s1 EXCEPT !.nest = st.nest,
                                !.lastErr = [code  |-> code,
                                             bytes |-> SubSeq(s1.out, Len(st.out) + 1,
                                                              Len(s1.out))]]
                : s1 \in {event([st EXCEPT !.nest = @ + 1], code, W16(VM_EVENT_ID))} })

(* ---------------- return stack ---------------- *)

\* *(rstack + i) = x
rstore(st, i, x) ==
    IF i \in 0 .. RETURN_STACK_SIZE - 1
    THEN [st EXCEPT !.rstack[i] = W16(x)]
    ELSE WildStore(st, x, "rstack")

\* *(rstack + i), left in ret
rload(st, i) ==
    IF i \in 0 .. RETURN_STACK_SIZE - 1
    THEN [st EXCEPT !.ret = st.rstack[i]]
    ELSE [st EXCEPT !.ret = st.garb, !.oob = @ \cup {"rstack"}]

\* void rpush(int16_t x): the test lets r reach rstack + RETURN_STACK_SIZE
rpush(st, x) ==
    IF st.r >= RETURN_STACK_SIZE
    THEN error(st, VM_ERROR_RETURN_STACK_OVERFLOW)
    ELSE rstore([st EXCEPT !.r = @ + 1], st.r + 1, x)

\* int16_t rpop(): the error branch returns no value
rpop(st) ==
    IF st.r < 0
    THEN [error(st, VM_ERROR_RETURN_STACK_UNDERFLOW) EXCEPT !.ret = st.garb]
    ELSE [rload(st, st.r) EXCEPT !.r = @ - 1]

(* ---------------- primitives ---------------- *)

\* p = v, for the value v a call left in ret
Jump(st) == [st EXCEPT !.p = st.ret]

\* push(v), for the value v a call left in ret
PushRet(st) == push(st, st.ret)

\* *s = v, for the value v a call left in ret
StoreTop(st) == dstore(st, st.s, st.ret)

\* void ret()
ret(st) == Jump(rpop(st))

\* int16_t mem16(int16_t address)
mem16(st, address) ==
    Only({ Only({ [s2 EXCEPT !.ret = Or16(W16(s1.ret * 256), s2.ret)]
                  : s2 \in {memget(s1, W16(address + 1))} })
           : s1 \in {memget(st, address)} })

\* eventOp() taking the value from the top of the stack and the id from below it
eventOpValueOnTop(st) ==
    Only({ Only({ event(s2, S8(s2.ret), s1.ret)
                  : s2 \in {pop(s1)} })
           : s1 \in {pop(st)} })

\* void eventOp()
eventOp(st) ==
    Only({ Only({ event(s2, S8(s1.ret), s2.ret)
                  : s2 \in {pop(s1)} })
           : s1 \in {pop(st)} })

\* void fetch8()
fetch8(st) ==
    Only({ StoreTop(memget(s1, s1.ret)) : s1 \in {dload(st, st.s)} })

\* void store8(): memset(pop(), (uint8_t)pop()), arguments evaluated in either order
store8(st) ==
    Only({ Only({ IF st.rtl
                  THEN memset([s2 EXCEPT !.did = @ \cup {"store"}], s2.ret, U8(s1.ret))
                  ELSE memset([s2 EXCEPT !.did = @ \cup {"store"}], s1.ret, U8(s2.ret))
                  : s2 \in {pop(s1)} })
           : s1 \in {pop(st)} })

\* void fetch16()
fetch16(st) ==
    Only({ StoreTop(mem16(s1, s1.ret)) : s1 \in {dload(st, st.s)} })

\* void store16()
store16(st) ==
    Only({ Only({ memset(memset([s2 EXCEPT !.did = @ \cup {"store"}],
                                s1.ret, U8(s2.ret \div 256)),
                         W16(s1.ret + 1), U8(s2.ret))
                  : s2 \in {pop(s1)} })
           : s1 \in {pop(st)} })

\* void lit8(): push(memget(p++)), the byte is not sign-extended
lit8(st) == PushRet(memget([st EXCEPT !.p = W16(@ + 1)], st.p))

\* void lit16(): push(mem16(p++)); p++;
lit16(st) ==
    Only({ [s1 EXCEPT !.p = W16(@ + 1)]
           : s1 \in {PushRet(mem16([st EXCEPT !.p = W16(@ + 1)], st.p))} })

\* the value of a binary operator applied to *s (a) and the popped x; what C leaves
\* undefined (division by zero, a shift by 16 or more) yields the indeterminate garb
BinVal(op, a, x, garb) ==
    CASE op = "add" -> W16(a + x)
      [] op = "sub" -> W16(a - x)
      [] op = "mul" -> W16(a * x)
      [] op = "div" -> IF x = 0 THEN garb ELSE W16(TruncDiv(a, x))
      [] op = "mod" -> IF x = 0 THEN garb ELSE W16(TruncMod(a, x))
      [] op = "and" -> And16(a, x)
      [] op = "or"  -> Or16(a, x)
      [] op = "xor" -> Xor16(a, x)
      [] op = "shift" -> IF x < 0
                         THEN (IF -x < 16 THEN W16(a * Pow2(-x)) ELSE garb)
                         ELSE (IF x < 16 THEN a \div Pow2(x) ELSE garb)
      [] op = "eq"  -> IF a = x THEN -1 ELSE 0
      [] op = "neq" -> IF a # x THEN -1 ELSE 0
      [] op = "gt"  -> IF a > x THEN -1 ELSE 0
      [] op = "geq" -> IF a >= x THEN -1 ELSE 0
      [] op = "lt"  -> IF a < x THEN -1 ELSE 0
      [] op = "leq" -> IF a <= x THEN -1 ELSE 0

\* the binary ALU instructions: int16_t x = pop(); *s = *s op x;
Binary(st, op) ==
    Only({ Only({ dstore(s2, s2.s, BinVal(op, s2.ret, s1.ret, st.garb))
                  : s2 \in {dload(s1, s1.s)} })
           : s1 \in {pop(st)} })

\* the value of a unary operator applied to *s
UnVal(op, a) ==
    CASE op = "not" -> -a - 1
      [] op = "neg" -> W16(-a)
      [] op = "inc" -> W16(a + 1)
      [] op = "dec" -> W16(a - 1)

\* the unary ALU instructions: *s = op(*s);
Unary(st, op) ==
    Only({ dstore(s1, s1.s, UnVal(op, s1.ret)) : s1 \in {dload(st, st.s)} })

\* void drop(): s--, unchecked
drop(st) == [st EXCEPT !.s = @ - 1]

\* void dup()
dup(st) == PushRet(dload(st, st.s))

\* void swap()
swap(st) ==
    Only({ Only({ dstore(StoreTop(s2), s2.s - 1, s1.ret)
                  : s2 \in {dload(s1, s1.s - 1)} })
           : s1 \in {dload(st, st.s)} })

\* void pick()
pick(st) ==
    Only({ PushRet(dload(s1, s1.s - s1.ret)) : s1 \in {pop(st)} })

\* for (i = s - n; i < s; i++) *i = *(i + 1);
RECURSIVE RollLoop(_, _)
RollLoop(st, i) ==
    IF i >= st.s THEN st
    ELSE Only({ RollLoop(dstore(s1, i, s1.ret), i + 1) : s1 \in {dload(st, i + 1)} })

\* where the loop of roll() starts; a run of stores below the array is one wild store
RollFrom(top, n) ==
    IF top - n >= top THEN top
    ELSE IF top - n < -1 THEN (IF top - 1 < -1 THEN top - 1 ELSE -1)
    ELSE top - n

\* void roll()
roll(st) ==
    Only({ Only({ dstore(RollLoop(s2, RollFrom(s2.s, s1.ret)), s2.s, s2.ret)
                  : s2 \in {dload(s1, s1.s - s1.ret)} })
           : s1 \in {pop(st)} })

\* void clr()
clr(st) == [st EXCEPT !.s = -1]

\* void pushr()
pushr(st) == Only({ rpush(s1, s1.ret) : s1 \in {pop(st)} })

\* void popr()
popr(st) == PushRet(rpop(st))

\* void peekr()
peekr(st) == PushRet(rload(st, st.r))

\* void forget()
forget(st) ==
    Only({ [s1 EXCEPT !.here = IF s1.ret < s1.here THEN s1.ret ELSE @,
                      !.forgot = IF s1.ret < s1.here THEN <<s1.ret>> ELSE @,
                      !.did = @ \cup {"forget"}]
           : s1 \in {pop(st)} })

\* void call()
call(st) == Jump(pop(rpush(st, st.p)))

\* void quote()
quote(st) ==
    Only({ Only({ [s2 EXCEPT !.p = W16(@ + s1.ret)]
                  : s2 \in {push(s1, s1.p)} })
           : s1 \in {memget([st EXCEPT !.p = W16(@ + 1)], st.p)} })

\* choice() with the quotations taken the other way round: p = pop() == 0 ? t : f
choiceSwapped(st) ==
    Only({ Only({ Only({ [s3 EXCEPT !.p = IF s3.ret = 0 THEN s2.ret ELSE s1.ret]
                         : s3 \in {pop(rpush(s2, s2.p))} })
                  : s2 \in {pop(s1)} })
           : s1 \in {pop(st)} })

\* void choice()
choice(st) ==
    Only({ Only({ Only({ [s3 EXCEPT !.p = IF s3.ret = 0 THEN s1.ret ELSE s2.ret]
                         : s3 \in {pop(rpush(s2, s2.p))} })
                  : s2 \in {pop(s1)} })
           : s1 \in {pop(st)} })

\* void chooseIf()
chooseIf(st) ==
    Only({ Only({ IF s2.ret # 0
                  THEN [rpush(s2, s2.p) EXCEPT !.p = s1.ret]
                  ELSE s2
                  : s2 \in {pop(s1)} })
           : s1 \in {pop(st)} })

\* next() going round once more: if (count >= 0)
nextOnceMore(st) ==
    Only({ Only({ IF W16(s1.ret - 1) >= 0
                  THEN [rpush(s2, W16(s1.ret - 1)) EXCEPT !.p = W16(@ - (s2.ret + 2))]
                  ELSE s2
                  : s2 \in {memget([s1 EXCEPT !.p = W16(@ + 1)], s1.p)} })
           : s1 \in {rpop(st)} })

\* void next()
next(st) ==
    Only({ Only({ IF W16(s1.ret - 1) > 0
                  THEN [rpush(s2, W16(s1.ret - 1)) EXCEPT !.p = W16(@ - (s2.ret + 2))]
                  ELSE s2
                  : s2 \in {memget([s1 EXCEPT !.p = W16(@ + 1)], s1.p)} })
           : s1 \in {rpop(st)} })

\* loopTicks() without the mask: push(loopIterations)
loopTicksUnmasked(st) == push(st, st.loopIterations)

\* void loopTicks()
loopTicks(st) == push(st, And16(st.loopIterations, 32767))

\* void setLoop()
setLoop(st) ==
    Only({ [s1 EXCEPT !.loopword = s1.ret]
           : s1 \in {pop([st EXCEPT !.loopIterations = 0])} })

\* void stopLoop()
stopLoop(st) == [st EXCEPT !.loopword = -1]

\* resetBoard() clearing the return stack as well
resetBoardBothStacks(st) ==
    [clr(st) EXCEPT !.r = -1, !.here = 0, !.last = 0, !.loopword = -1,
                    !.loopIterations = 0, !.forgot = <<>>, !.did = @ \cup {"reset"}]

\* void resetBoard()
resetBoard(st) ==
    [clr(st) EXCEPT !.here = 0, !.last = 0, !.loopword = -1, !.loopIterations = 0,
                    !.forgot = <<>>, !.did = @ \cup {"reset"}]

\* the platform wrappers that pop two operands: pinMode, digitalWrite, analogWrite
PlatformWrite2(st) == pop(pop(st))

\* the platform wrappers that pop one operand and push what the platform answers:
\* digitalRead, analogRead (the answer comes from outside the model)
PlatformRead1(st) == push(pop(st), st.garb)

\* void milliseconds()
milliseconds(st) == push(st, st.garb)

\* void pulseIn()
pulseIn(st) == push(pop(pop(st)), st.garb)

\* isrs[i] = x
isrstore(st, i, x) ==
    IF i \in 0 .. MAX_INTERRUPTS - 1
    THEN [st EXCEPT !.isrs[i] = x]
    ELSE WildStore(st, x, "isrs")

\* void attachISR(): the switch has no break, so every case from `interrupt` on runs
attachISR(st) ==
    Only({ Only({ Only({
        [isrstore(s3, U8(s2.ret), s3.ret) EXCEPT
            !.attached = [k \in 0 .. 6 |-> IF k >= U8(s2.ret) THEN U8(s1.ret) ELSE @[k]]]
                         : s3 \in {pop(s2)} })
                  : s2 \in {pop(s1)} })
           : s1 \in {pop(st)} })

\* void detachISR()
detachISR(st) ==
    Only({ [isrstore(s1, s1.ret, -1) EXCEPT
               !.attached = [k \in 0 .. 6 |-> IF k = s1.ret THEN -1 ELSE @[k]]]
           : s1 \in {pop(st)} })

\* instructions[i](): the table setup() binds; a slot never bound holds a null pointer
Instr(st, i) ==
    CASE i = 0 -> ret(st)
      [] i = 1 -> lit8(st)
      [] i = 2 -> lit16(st)
      [] i = 3 -> quote(st)
      [] i = 4 -> eventHeader(st)
      [] i = 5 -> eventBody8(st)
      [] i = 6 -> eventBody16(st)
      [] i = 7 -> eventFooter(st)
      [] i = 8 -> eventOp(st)
      [] i = 9 -> fetch8(st)
      [] i = 10 -> store8(st)
      [] i = 11 -> fetch16(st)
      [] i = 12 -> store16(st)
      [] i = 13 -> Binary(st, "add")
      [] i = 14 -> Binary(st, "sub")
      [] i = 15 -> Binary(st, "mul")
      [] i = 16 -> Binary(st, "div")
      [] i = 17 -> Binary(st, "mod")
      [] i = 18 -> Binary(st, "and")
      [] i = 19 -> Binary(st, "or")
      [] i = 20 -> Binary(st, "xor")
      [] i = 21 -> Binary(st, "shift")
      [] i = 22 -> Binary(st, "eq")
      [] i = 23 -> Binary(st, "neq")
      [] i = 24 -> Binary(st, "gt")
      [] i = 25 -> Binary(st, "geq")
      [] i = 26 -> Binary(st, "lt")
      [] i = 27 -> Binary(st, "leq")
      [] i = 28 -> Unary(st, "not")
      [] i = 29 -> Unary(st, "neg")
      [] i = 30 -> Unary(st, "inc")
      [] i = 31 -> Unary(st, "dec")
      [] i = 32 -> drop(st)
      [] i = 33 -> dup(st)
      [] i = 34 -> swap(st)
      [] i = 35 -> pick(st)
      [] i = 36 -> roll(st)
      [] i = 37 -> clr(st)
      [] i = 38 -> pushr(st)
      [] i = 39 -> popr(st)
      [] i = 40 -> peekr(st)
      [] i = 41 -> forget(st)
      [] i = 42 -> call(st)
      [] i = 43 -> choice(st)
      [] i = 44 -> chooseIf(st)
      [] i = 45 -> loopTicks(st)
      [] i = 46 -> setLoop(st)
      [] i = 47 -> stopLoop(st)
      [] i = 48 -> resetBoard(st)
      [] i = 49 -> PlatformWrite2(st)
      [] i = 50 -> PlatformRead1(st)
      [] i = 51 -> PlatformWrite2(st)
      [] i = 52 -> PlatformRead1(st)
      [] i = 53 -> PlatformWrite2(st)
      [] i = 54 -> attachISR(st)
      [] i = 55 -> detachISR(st)
      [] i = 56 -> milliseconds(st)
      [] i = 57 -> pulseIn(st)
      [] i = 58 -> next(st)
      [] i = 59 -> st
      [] OTHER -> [st EXCEPT !.nullcall = TRUE]

\* the else branch of run() without the test for a following ret: every call pushes
RunCallAlwaysPushes(st, i) ==
    Only({ [s2 EXCEPT !.p = (i % 128) * 256 + s2.ret]
           : s2 \in {memget(rpush(st, W16(st.p + 1)), st.p)} })

\* the else branch of run() with the return address one byte short: the callee's ret
\* would resume at the second byte of the call
RunCallReturnsIntoCall(st, i) ==
    Only({ Only({ [s2 EXCEPT !.p = (i % 128) * 256 + s2.ret]
                  : s2 \in {memget(IF s1.ret # 0 THEN rpush(s1, s1.p) ELSE s1,
                                   s1.p)} })
           : s1 \in {memget(st, W16(st.p + 1))} })

\* the else branch of run(): i is the first byte of a call
RunCall(st, i) ==
    Only({ Only({ [s2 EXCEPT !.p = (i % 128) * 256 + s2.ret]
                  : s2 \in {memget(IF s1.ret # 0 THEN rpush(s1, W16(s1.p + 1)) ELSE s1,
                                   s1.p)} })
           : s1 \in {memget(st, W16(st.p + 1))} })

\* one iteration of the do-while of run()
RunStep(st) ==
    Only({ IF s1.ret < 128 THEN Instr(s1, s1.ret) ELSE RunCall(s1, s1.ret)
           : s1 \in {memget([st EXCEPT !.p = W16(@ + 1)], st.p)} })

\* exec() emptying the data stack as well
execClearing(st, address) ==
    [rpush([st EXCEPT !.r = -1, !.s = -1], -1) EXCEPT !.p = address]

\* void exec(int16_t address), up to the call of run()
exec(st, address) ==
    [rpush([st EXCEPT !.r = -1], -1) EXCEPT !.p = address]

(* ---------------- the SLIP-framed transport: its globals ---------------- *)

\* the parser states
WAITING_FOR_SEQUENCE == 0
WAITING_FOR_BYTECODE == 1
PROCESS_PAYLOAD == 2
WAITING_FOR_RECOVERY == 3

\* the SLIP special characters
END == 192
ESCAPE == 219
ESCAPED_END == 220
ESCAPED_ESCAPE == 221

FRAMES_ERROR == 127
FRAMES_WARNING_OUT_OF_SEQUENCE == 0
FRAMES_ERROR_UNEXPECTED_ESCAPE == 1
FRAMES_ERROR_CRC_MISMATCH == 2
FRAMES_ERROR_UNEXPECTED_END == 3
FRAMES_ERROR_BUFFER_OVERFLOW == 4

\* const byte frameBufferSourceLength
frameBufferSourceLength == 64

\* no frame of the peer is under way
NoTx == [payload |-> <<>>, n0 |-> -1, state |-> -1, readChecksum |-> -1, escaped |-> -1,
         resync |-> FALSE, good |-> FALSE]

\* the globals of ReflectaFramesSerial.cpp with their initialisers, after setup() (the
\* default allocator), and the ghosts of the line: rx, the bytes Serial.read() will
\* return; wire, the bytes written with Serial.write(); errors, the codes given to
\* sendError(); delivered, the calls of the frame-received callback; peerSequence, the
\* writeSequence of the peer that sends with the same sendFrame(); got, the unescaped
\* bytes read since the last unescaped END; tx, the frame of the peer on the line and the
\* parser state it met; resync, the byte read last was the END that ends a recovery;
\* sends, the number of things the peer has put on the line; b and ret, the byte and
\* the value readUnescaped() returned last
SlipBoot ==
    [readChecksum |-> 0, writeChecksum |-> 0, readSequence |-> 0, writeSequence |-> 0,
     escaped |-> 0, state |-> WAITING_FOR_SEQUENCE,
     frameBuffer |-> [k \in 0 .. frameBufferSourceLength - 1 |-> 0],
     frameBufferLength |-> 0, frameIndex |-> 0, sequence |-> 0,
     b |-> 0, ret |-> 0,
     rx |-> <<>>, wire |-> <<>>, errors |-> <<>>, delivered |-> <<>>,
     peerSequence |-> 0, got |-> <<>>, resync |-> FALSE, tx |-> NoTx, sends |-> 0]

(* ---------------- boot ---------------- *)

\* the globals as the C runtime zero-initialises them, with the initialisers of the source
\* (s and r are null pointers until clr() and exec() set them)
Globals ==
    [memory |-> [a \in 0 .. MEM_SIZE - 1 |-> 0],
     dstack |-> [k \in 0 .. DATA_STACK_SIZE - 1 |-> 0], s |-> -1,
     rstack |-> [k \in 0 .. RETURN_STACK_SIZE - 1 |-> 0], r |-> -1,
     p |-> 0, here |-> 0, last |-> 0, eventBuffer |-> MEM_SIZE,
     loopword |-> -1, loopIterations |-> 0,
     isrs |-> [k \in 0 .. MAX_INTERRUPTS - 1 |-> 0],
     out |-> <<>>, oob |-> {}, lastErr |-> NoErr,
     attached |-> [k \in 0 .. 6 |-> -1], did |-> {}, forgot |-> <<>>,
     ret |-> 0, nest |-> 0, crashed |-> FALSE, nullcall |-> FALSE, snap |-> <<>>,
     garb |-> 0, wild |-> -1, rtl |-> FALSE]

\* no interrupt handler is running, none has run
NoUnder ==
    [pc |-> "none", ctx |-> "none", steps |-> 0, p |-> 0, r |-> -1,
     rstack |-> Globals.rstack, s |-> -1, dstack |-> Globals.dstack,
     memory |-> Globals.memory, here |-> 0, last |-> 0, out |-> <<>>, fired |-> 0]

\* void setup()
setup(st) ==
    event([resetBoard(st) EXCEPT !.isrs = [k \in 0 .. MAX_INTERRUPTS - 1 |-> -1],
                                 !.did = {}],
          BOOT_EVENT_ID, 0)

(* ---------------- the host ---------------- *)

\* the frames the host sends: exec tells an immediate frame from a definition
DefMul     == [exec |-> FALSE, payload |-> <<1, 2, 1, 3, 15, 0>>]   \* lit8 2, lit8 3, mul, ret
DefBig     == [exec |-> FALSE, payload |-> [k \in 1 .. 127 |-> IF k = 127 THEN 0 ELSE 59]]
ImmEmpty   == [exec |-> TRUE, payload |-> <<>>]
ImmForget0 == [exec |-> TRUE, payload |-> <<1, 0, 41>>]             \* lit8 0, forget
ImmForgetN == [exec |-> TRUE, payload |-> <<2, 255, 255, 41>>]      \* lit16 -1, forget
ImmReset   == [exec |-> TRUE, payload |-> <<48>>]                   \* resetBoard
ImmEvent   == [exec |-> TRUE, payload |-> <<1, 5, 1, 7, 8>>]        \* lit8 5, lit8 7, eventOp
ImmBody    == [exec |-> TRUE, payload |-> <<1, 9, 5>>]              \* lit8 9, eventBody8
ImmDups    == [exec |-> TRUE, payload |-> <<1, 1, 33, 33, 33, 33, 33>>] \* lit8 1, dup x 5
ImmPinMode == [exec |-> TRUE, payload |-> <<49>>]                   \* pinMode
ImmSetLoop == [exec |-> TRUE, payload |-> <<1, 0, 46>>]             \* lit8 0, setLoop

DefPad     == [exec |-> FALSE, payload |-> <<59, 0>>]               \* nop, ret
DefRec     == [exec |-> FALSE, payload |-> <<128, 0, 59, 0>>]       \* call 0, nop, ret
DefTail    == [exec |-> FALSE, payload |-> <<128, 0, 0>>]           \* call 0, ret
\* lit8 7, eventHeader, lit16 255, pushr, [lit8 9, eventBody8, next -3], eventFooter, ret
DefLong    == [exec |-> FALSE,
               payload |-> <<1, 7, 4, 2, 0, 255, 38, 1, 9, 5, 58, 3, 7, 0>>]
ImmDropEvent == [exec |-> TRUE, payload |-> <<32, 8>>]              \* drop, eventOp
ImmStoreNeg == [exec |-> TRUE, payload |-> <<1, 7, 2, 255, 255, 12>>] \* lit8 7, lit16 -1, store16
ImmLitNeg  == [exec |-> TRUE, payload |-> <<1, 255>>]               \* lit8 0xFF
ImmEvent0  == [exec |-> TRUE, payload |-> <<1, 0, 1, 7, 8>>]        \* lit8 0, lit8 7, eventOp
ImmEvent16 == [exec |-> TRUE, payload |-> <<2, 1, 44, 1, 200, 8>>]  \* lit16 300, lit8 200, eventOp
ImmPush    == [exec |-> TRUE, payload |-> <<2, 1, 44, 1, 7>>]       \* lit16 300, lit8 7
ImmEventOp == [exec |-> TRUE, payload |-> <<8>>]                    \* eventOp
\* lit8 7, eventHeader, lit16 300, eventBody16, lit8 9, eventBody8, eventFooter
ImmStruct  == [exec |-> TRUE, payload |-> <<1, 7, 4, 2, 1, 44, 6, 1, 9, 5, 7>>]
ImmCall0   == [exec |-> TRUE, payload |-> <<128, 0, 59>>]           \* call 0, nop
ImmTail    == [exec |-> TRUE, payload |-> <<128, 0>>]               \* call 0 (ret follows)
ImmCallNeg == [exec |-> TRUE, payload |-> <<2, 255, 254, 42>>]      \* lit16 -2, call

DefTicks   == [exec |-> FALSE, payload |-> <<45, 32, 0>>]           \* loopTicks, drop, ret
\* loopTicks, drop, lit8 3, setLoop, loopTicks, drop, ret
DefRewind  == [exec |-> FALSE, payload |-> <<45, 32, 1, 3, 46, 45, 32, 0>>]
ImmSetLoop3 == [exec |-> TRUE, payload |-> <<1, 3, 46>>]            \* lit8 3, setLoop
ImmStopLoop == [exec |-> TRUE, payload |-> <<47>>]                  \* stopLoop

\* lit8 1, dup, dup, popr: the sentinel joins three items on the data stack, and the ret
\* of the frame finds the return stack empty
ImmFullErr == [exec |-> TRUE, payload |-> <<1, 1, 33, 33, 39>>]

\* lit8 5, then the opcode 127, which setup() binds to nothing
ImmUnbound == [exec |-> TRUE, payload |-> <<1, 5, 127>>]

\* lit8 0, lit8 2, lit8 1, attachISR: the word at 0 for line 2, mode 1
ImmAttach  == [exec |-> TRUE, payload |-> <<1, 0, 1, 2, 1, 1, 54>>]

\* lit8 0, quote 3 [lit8 7, ret], quote 3 [lit8 9, ret], choice
ImmChoice0 == [exec |-> TRUE, payload |-> <<1, 0, 3, 3, 1, 7, 0, 3, 3, 1, 9, 0, 43>>]
\* lit8 0, dup, dup, pushr, pushr, pushr, then lit8 1 and the two quotations and choice
ImmChoiceFull == [exec |-> TRUE,
                  payload |-> <<1, 0, 33, 33, 38, 38, 38,
                                1, 1, 3, 3, 1, 7, 0, 3, 3, 1, 9, 0, 43>>]

\* lit8 18, then lit8 1, quote 2, lit8 7, ret, quote 2, lit8 9, ret, choice, eventOp
ImmChoiceEvent2 == [exec |-> TRUE,
                    payload |-> <<1, 18, 1, 1, 3, 2, 1, 7, 0, 3, 2, 1, 9, 0, 43, 8>>]
\* the same with quotations of length 3, which takes in their ret
ImmChoiceEvent3 == [exec |-> TRUE,
                    payload |-> <<1, 18, 1, 1, 3, 3, 1, 7, 0, 3, 3, 1, 9, 0, 43, 8>>]

ImmDupDrop == [exec |-> TRUE, payload |-> <<1, 5, 33, 32>>]        \* lit8 5, dup, drop
\* lit8 5, dup, dup, lit8 9, then dup, drop on the four items
ImmDupDropFull == [exec |-> TRUE, payload |-> <<1, 5, 33, 33, 1, 9, 33, 32>>]

ImmNext3   == [exec |-> TRUE, payload |-> <<1, 3, 38, 59, 58, 1>>]  \* lit8 3, pushr, [nop, next 1]
ImmNext0   == [exec |-> TRUE, payload |-> <<1, 0, 38, 59, 58, 1>>]  \* lit8 0, pushr, [nop, next 1]
\* lit16 -32768, pushr, [nop, next 1]
ImmNextMin == [exec |-> TRUE, payload |-> <<2, 128, 0, 38, 59, 58, 1>>]

\* lit8 7, eventHeader, eventBody8 with nothing to pop, eventFooter
ImmHeadErr == [exec |-> TRUE, payload |-> <<1, 7, 4, 5, 7>>]
\* nop, lit16 300, eventBody16, eventFooter: a body and a footer without eventHeader
ImmNoHead  == [exec |-> TRUE, payload |-> <<59, 2, 1, 44, 6, 7>>]

Catalog(h) ==
    CASE h = "fill" -> {DefBig, DefMul, ImmEvent}
      [] h = "build" -> {ImmHeadErr, ImmNoHead, ImmBody, ImmStruct}
      [] h = "ops" -> {ImmFullErr, ImmUnbound, ImmAttach, ImmChoice0, ImmChoiceFull,
                       ImmChoiceEvent2, ImmChoiceEvent3, ImmDupDrop, ImmDupDropFull,
                       ImmNext3, ImmNext0, ImmNextMin}
      [] h = "ticks" -> {DefRewind, ImmSetLoop3, ImmStopLoop}
      [] h = "stack" -> {ImmDropEvent, ImmStoreNeg, ImmLitNeg, ImmEvent, ImmEvent0,
                         ImmEvent16, ImmStruct, ImmPush, ImmEventOp}
      [] h = "calls" -> {DefMul, DefRec, DefTail, ImmCall0, ImmTail, ImmCallNeg}
      [] OTHER -> {DefMul, ImmEmpty, ImmForget0, ImmForgetN, ImmReset, ImmEvent, ImmBody,
                   ImmDups, ImmPinMode, ImmSetLoop}

\* the frames the host may send as frame number n + 1: in the "edge" and "long" scenarios
\* the host follows a script, in the others any frame of the catalog may come
Offered(h, n) ==
    CASE h = "edge" -> IF n = 0 THEN {ImmPush}
                       ELSE IF n <= 4 THEN {DefBig}
                       ELSE IF n = 5 THEN {DefPad}
                       ELSE {ImmEventOp}
      [] h = "long" -> IF n = 0 THEN {DefLong} ELSE {ImmTail}
      [] h = "isr" -> IF n = 0 THEN {DefPad}
                      ELSE IF n = 1 THEN {ImmAttach}
                      ELSE IF n = 2 THEN {ImmPush}
                      ELSE IF n = 3 THEN {ImmSetLoop}
                      ELSE {ImmEmpty}
      [] OTHER -> Catalog(h)

Hosts == {"mix", "fill", "stack", "calls", "edge", "long", "ops", "build"}

Budget(h) ==
    CASE h = "fill" -> MaxFramesFill
      [] h = "edge" -> MaxFramesEdge
      [] h = "long" -> MaxFramesLong
      [] h = "ticks" -> MaxFramesTicks
      [] h = "ops" -> MaxFramesOps
      [] h = "build" -> MaxFramesOps
      [] h = "isr" -> MaxFramesIsr
      [] OTHER -> MaxFramesMix

\* the interpreter steps explored in one exec()
StepBound(h) == IF h = "long" THEN MaxStepsLong ELSE MaxSteps

\* the header byte the host puts before the payload
Header(f) == (IF f.exec THEN 128 ELSE 0) + Len(f.payload)

NoFrame == [start |-> -1, last0 |-> -1, s0 |-> -1, exec |-> FALSE, payload |-> <<>>,
            execAt |-> -1, image |-> <<>>, got |-> FALSE]

(* ---------------- loop() ---------------- *)

\* for (; len > 0; len--) memset(here++, Serial.read());
\* the bytes k .. k + len - 1 of the payload are stored in order, the first half of them
\* and then the second
RECURSIVE StoreFrame(_, _, _, _)
StoreFrame(st, bytes, k, len) ==
    IF len <= 0 \/ st.crashed THEN st
    ELSE IF len = 1
         THEN memset([st EXCEPT !.here = W16(@ + 1)], st.here, bytes[k])
         ELSE StoreFrame(StoreFrame(st, bytes, k, len \div 2),
                         bytes, k + len \div 2, len - len \div 2)

\* the bytes of memory at a .. a + n - 1, as far as they exist
Image(mem, a, n) ==
    [k \in 1 .. n |-> IF a + k - 1 \in 0 .. MEM_SIZE - 1 THEN mem[a + k - 1] ELSE -1]

\* the variables take the values of the record the C functions left
Commit(st) ==
    /\ memory' = st.memory
    /\ dstack' = st.dstack
    /\ s' = st.s
    /\ rstack' = st.rstack
    /\ r' = st.r
    /\ p' = st.p
    /\ here' = st.here
    /\ last' = st.last
    /\ eventBuffer' = st.eventBuffer
    /\ loopword' = st.loopword
    /\ loopIterations' = st.loopIterations
    /\ isrs' = st.isrs
    /\ out' = st.out
    /\ oob' = st.oob
    /\ lastErr' = st.lastErr
    /\ attached' = st.attached
    /\ did' = st.did
    /\ forgot' = st.forgot
    /\ ever' = ever \cup st.did

\* the call never returns: error() recursed without end, or a null instruction was called
Dead(st) == st.crashed \/ st.nullcall

\* what the C functions left: of a recursion without end, the state it goes on in
Settled(st) == IF st.crashed THEN [st.snap EXCEPT !.crashed = TRUE] ELSE st

\* the position of a loop() that never returns
DeadAt(st) == IF st.crashed THEN "recursion" ELSE "nullcall"

\* loop() as the specification words it: a definition frame leaves last at the first
\* byte of the new definition
IntakeLastAtStart(st, b, bytes) ==
    Only({ IF (b \div 128) % 2 = 1
           THEN Only({ exec([s2 EXCEPT !.here = s2.last], s2.last)
                       : s2 \in {memset([s1 EXCEPT !.here = W16(@ + 1)], s1.here, 0)} })
           ELSE [s1 EXCEPT !.last = st.here]
           : s1 \in {StoreFrame(st, bytes, 1, b % 128)} })

\* the part of loop() that handles a frame with header byte b, up to the call of run():
\* the payload is stored; an immediate frame gets its ret and exec() is entered at last,
\* a definition moves last
Intake(st, b, bytes) ==
    Only({ IF (b \div 128) % 2 = 1
           THEN Only({ exec([s2 EXCEPT !.here = s2.last], s2.last)
                       : s2 \in {memset([s1 EXCEPT !.here = W16(@ + 1)], s1.here, 0)} })
           ELSE [s1 EXCEPT !.last = s1.here]
           : s1 \in {StoreFrame(st, bytes, 1, b % 128)} })

\* loop(), Serial.available(): a frame of the host is taken in
LoopFrame ==
    /\ pc = "idle"
    /\ sent < Budget(host)
    /\ \E f \in Offered(host, sent), o \in Oracles :
         \E st \in {Settled(Intake([VM(o) EXCEPT !.out = <<>>, !.did = {}, !.forgot = <<>>],
                                    Header(f), f.payload))} :
             /\ Commit(st)
             /\ frame' = [start |-> here, last0 |-> last, s0 |-> s, exec |-> f.exec,
                          payload |-> f.payload,
                          execAt |-> IF f.exec /\ ~Dead(st) THEN st.p ELSE -1,
                          image |-> IF f.exec /\ ~Dead(st)
                                    THEN Image(st.memory, st.p, Len(f.payload) + 1)
                                    ELSE <<>>,
                          got |-> TRUE]
             /\ pc' = IF Dead(st) THEN DeadAt(st) ELSE IF f.exec THEN "run" ELSE "loopword"
             /\ ctx' = IF f.exec /\ ~Dead(st) THEN "frame" ELSE "none"
             /\ defs' = IF f.exec \/ Dead(st) THEN defs
                        ELSE Append(defs, [at |-> here, bytes |-> f.payload])
    /\ built' = <<>>
    /\ steps' = 0
    /\ sent' = sent + 1
    /\ UNCHANGED <<host, ticks, under, slip>>

\* loop(), nothing available on Serial
LoopNoFrame ==
    /\ pc = "idle"
    /\ pc' = "loopword"
    /\ out' = <<>>
    /\ did' = {}
    /\ frame' = NoFrame
    /\ UNCHANGED <<memory, dstack, s, rstack, r, p, here, last, eventBuffer, loopword,
                   loopIterations, isrs, ctx, steps, host, sent, oob, lastErr, attached,
                   ever, defs, built, forgot, ticks, under, slip>>

\* loop(), if (loopword >= 0): exec(loopword) is entered
LoopWordRun ==
    /\ pc = "loopword"
    /\ loopword >= 0
    /\ ticks.k - ticks.base < MaxLoopIterations
    /\ \E o \in Oracles :
         \E st \in {Settled(exec(VM(o), loopword))} :
             /\ Commit(st)
             /\ pc' = IF Dead(st) THEN DeadAt(st) ELSE "run"
    /\ ctx' = "loop"
    /\ steps' = 0
    /\ ticks' = [ticks EXCEPT !.k = @ + 1]
    /\ UNCHANGED <<host, sent, frame, defs, built, under, slip>>

\* loop(), loopword < 0: the call returns
LoopWordSkip ==
    /\ pc = "loopword"
    /\ loopword < 0
    /\ pc' = "idle"
    /\ UNCHANGED <<memory, dstack, s, rstack, r, p, here, last, eventBuffer, loopword,
                   loopIterations, isrs, out, ctx, steps, host, sent, oob, lastErr, frame,
                   attached, did, ever, defs, built, forgot, ticks, under, slip>>

\* what follows run() when it leaves its loop (p < 0) in the loop-word branch of loop():
\* loopIterations++
AfterRun(st, c) ==
    IF st.p < 0 /\ c = "loop" /\ ~Dead(st)
    THEN [st EXCEPT !.loopIterations = W16(@ + 1)]
    ELSE st

\* what the instruction at p, which took the VM to st, makes of the event being built:
\* eventHeader (4) starts it with the id, eventBody8 (5) and eventBody16 (6) append to it,
\* eventFooter (7) ends it; an instruction that sent something (an error, an event) or
\* moved or stored into the dictionary breaks it off
Built(st) ==
    IF Dead(st) \/ p \notin 0 .. MEM_SIZE - 1 \/ st.out # out \/ st.did # did
       \/ memory[p] = 7
    THEN <<>>
    ELSE IF memory[p] \notin {4, 5, 6}
    THEN built
    ELSE IF s \notin 0 .. DATA_STACK_SIZE - 1 \/ (memory[p] # 4 /\ built = <<>>)
    THEN <<>>
    ELSE CASE memory[p] = 4 -> <<U8(dstack[s])>>
           [] memory[p] = 5 -> Append(built, U8(dstack[s]))
           [] memory[p] = 6 -> built \o <<U8(dstack[s] \div 256), U8(dstack[s])>>

\* what the instruction at p makes of the count of the loop word's runs: setLoop (46) in
\* an immediate frame starts it anew; setLoop or resetBoard (48) in the loop word zero
\* loopIterations in the middle of a run
Ticks ==
    IF p \notin 0 .. MEM_SIZE - 1 THEN ticks
    ELSE IF memory[p] = 46 /\ ctx = "frame" THEN [k |-> 0, reset |-> FALSE, base |-> 0]
    ELSE IF memory[p] \in {46, 48} /\ ctx = "loop" THEN [ticks EXCEPT !.reset = TRUE]
    ELSE ticks

\* one iteration of run(); when p < 0 run() and exec() return into loop(), which goes on
\* to the loop word after a frame and ends after the loop word
Step ==
    /\ pc = "run"
    /\ ctx # "isr"
    /\ steps < StepBound(host)
    /\ \E o \in Oracles :
         \E st \in {Settled(AfterRun(RunStep(VM(o)), ctx))} :
             /\ Commit(st)
             /\ pc' = IF Dead(st) THEN DeadAt(st)
                      ELSE IF st.p >= 0 THEN "run"
                      ELSE IF ctx = "frame" THEN "loopword" ELSE "idle"
             /\ ctx' = IF st.p < 0 \/ Dead(st) THEN "none" ELSE ctx
             /\ built' = Built(st)
    /\ ticks' = Ticks
    /\ steps' = steps + 1
    /\ UNCHANGED <<host, sent, frame, defs, under, slip>>

Booted(h) ==
    \E st \in {setup(Globals)} :
        /\ memory = st.memory
        /\ dstack = st.dstack
        /\ s = st.s
        /\ rstack = st.rstack
        /\ r = st.r
        /\ p = st.p
        /\ here = st.here
        /\ last = st.last
        /\ eventBuffer = st.eventBuffer
        /\ loopword = st.loopword
        /\ loopIterations = st.loopIterations
        /\ isrs = st.isrs
        /\ out = st.out
        /\ oob = st.oob
        /\ lastErr = st.lastErr
        /\ attached = st.attached
        /\ did = {}
        /\ ever = {}
        /\ pc = "idle"
        /\ ctx = "none"
        /\ steps = 0
        /\ host = h
        /\ sent = 0
        /\ frame = NoFrame
        /\ defs = <<>>
        /\ built = <<>>
        /\ forgot = <<>>
        /\ ticks = NoTicks
        /\ under = NoUnder

\* the state after setup(), in any of the scenarios of the host
Init == slip = SlipBoot /\ \E h \in Hosts : Booted(h)

\* run(): the do-while, for at most n iterations
RECURSIVE RunAll(_, _)
RunAll(st, n) ==
    IF n = 0 \/ Dead(st) THEN st
    ELSE Only({ IF s1.p >= 0 THEN RunAll(s1, n - 1) ELSE s1 : s1 \in {RunStep(st)} })

\* the state in which loop() returns after the frames DefTicks (a loop word at address 0)
\* and ImmSetLoop (lit8 0, setLoop) and k0 >= 2 runs of the loop word in all: every run
\* finds what the one before left, but for loopIterations, which the k0-th run finds
\* at k0 - 1
Ticked(k0) ==
    Only({ Only({ AfterRun(RunAll(exec([s2 EXCEPT !.loopIterations = W16(k0 - 1),
                                                  !.out = <<>>, !.did = {}],
                                       s2.loopword), MaxSteps), "loop")
                  : s2 \in {RunAll(Intake(s1, Header(ImmSetLoop), ImmSetLoop.payload),
                                   MaxSteps)} })
           : s1 \in {Intake(setup(Globals), Header(DefTicks), DefTicks.payload)} })

\* the numbers of runs after which the exploration of the "ticks" scenario starts: the
\* next runs find loopIterations at INT16_MAX - 1, at INT16_MAX (the increment wraps to
\* INT16_MIN) and at -1 (65535 runs)
TickStarts == {32766, 32767, 65535}

InitTicks ==
    \E k0 \in TickStarts :
        \E st \in {Ticked(k0)} :
            /\ memory = st.memory
            /\ dstack = st.dstack
            /\ s = st.s
            /\ rstack = st.rstack
            /\ r = st.r
            /\ p = st.p
            /\ here = st.here
            /\ last = st.last
            /\ eventBuffer = st.eventBuffer
            /\ loopword = st.loopword
            /\ loopIterations = st.loopIterations
            /\ isrs = st.isrs
            /\ out = st.out
            /\ oob = st.oob
            /\ lastErr = st.lastErr
            /\ attached = st.attached
            /\ did = {}
            /\ ever = {}
            /\ pc = "idle"
            /\ ctx = "none"
            /\ steps = Len(DefTicks.payload)
            /\ host = "ticks"
            /\ sent = 2
            /\ frame = NoFrame
            /\ defs = <<[at |-> 0, bytes |-> DefTicks.payload]>>
            /\ built = <<>>
            /\ forgot = <<>>
            /\ ticks = [k |-> k0, reset |-> FALSE, base |-> k0]
            /\ under = NoUnder
            /\ slip = SlipBoot

(* ---------------- interrupts ---------------- *)

\* the platform raises the interrupt of an attached line n while loop() is between two
\* instructions of a word, or between two of its own statements: interruptN() calls
\* interrupt(n), which reads isrs[n] (line 6 has a handler but no cell in isrs) and
\* enters exec() for a word other than -1.  Interrupts are not taken inside a handler.
Interrupt ==
    /\ pc \in {"idle", "loopword", "run"}
    /\ under.pc = "none"
    /\ under.fired < MaxIrqs
    /\ \E n \in 0 .. 6, o \in Oracles :
         /\ attached[n] # -1
         /\ \E sv \in {IF n < MAX_INTERRUPTS
                        THEN [VM(o) EXCEPT !.ret = isrs[n]]
                        ELSE [VM(o) EXCEPT !.ret = o.garb, !.oob = @ \cup {"isrs"}]} :
                /\ sv.ret # -1
                /\ \E st \in {Settled(exec(sv, sv.ret))} :
                       /\ Commit(st)
                       /\ pc' = IF Dead(st) THEN DeadAt(st) ELSE "run"
    /\ ctx' = "isr"
    /\ steps' = 0
    /\ under' = [pc |-> pc, ctx |-> ctx, steps |-> steps, p |-> p, r |-> r,
                 rstack |-> rstack, s |-> s, dstack |-> dstack, memory |-> memory,
                 here |-> here, last |-> last, out |-> out, fired |-> under.fired + 1]
    /\ UNCHANGED <<host, sent, frame, defs, built, ticks, slip>>

\* one iteration of the run() of an interrupt handler.  When p < 0 the handler returns
\* to where loop() was interrupted.  Inside the run() of a word that is: before the test
\* while (p >= 0), which now finds the handler's p and ends the word (what follows the
\* run() of that word follows); or behind that test (late), where run() goes on to
\* fetch at the handler's p.  Before the first instruction of the word there is no test.
IsrStep ==
    /\ pc = "run"
    /\ ctx = "isr"
    /\ steps < StepBound(host)
    /\ \E o \in Oracles, late \in IF under.steps = 0 THEN {TRUE} ELSE BOOLEAN :
         \E st \in {Settled(AfterRun(RunStep(VM(o)),
                                     IF under.pc = "run" /\ ~late THEN under.ctx
                                     ELSE "none"))} :
             /\ Commit(st)
             /\ pc' = IF Dead(st) THEN DeadAt(st)
                      ELSE IF st.p >= 0 THEN "run"
                      ELSE IF under.pc # "run" THEN under.pc
                      ELSE IF late THEN "run"
                      ELSE IF under.ctx = "frame" THEN "loopword" ELSE "idle"
             /\ ctx' = IF Dead(st) THEN "none"
                       ELSE IF st.p >= 0 THEN "isr"
                       ELSE IF under.pc = "run" /\ late THEN under.ctx ELSE "none"
             /\ steps' = IF ~Dead(st) /\ st.p < 0 /\ under.pc = "run" /\ late
                         THEN under.steps ELSE steps + 1
             /\ under' = IF Dead(st) \/ st.p < 0
                         THEN [NoUnder EXCEPT !.fired = under.fired] ELSE under
             /\ built' = Built(st)
    /\ ticks' = Ticks
    /\ UNCHANGED <<host, sent, frame, defs, slip>>

Next ==
    \/ LoopFrame
    \/ LoopNoFrame
    \/ LoopWordRun
    \/ LoopWordSkip
    \/ Step

Spec == Init /\ [][Next]_vars

\* the VM after tens of thousands of runs of a loop word
SpecTicks == InitTicks /\ [][Next]_vars

\* loop() and the interrupts of the platform
NextIsr ==
    \/ Next
    \/ Interrupt
    \/ IsrStep

\* the VM with a handler word attached to an interrupt line
SpecIsr == slip = SlipBoot /\ Booted("isr") /\ [][NextIsr]_vars

(* ---------------- the SLIP-framed transport ---------------- *)

\* a ^ b on bytes
Xor8(a, b) == BitOp("xor", a, b, 8)

\* Serial.write(b) of the transport
SlipWrite(v, b) == [v EXCEPT !.wire = Append(@, b)]

\* writeEscaped() that leaves ESCAPE as it is
writeEscapedEndOnly(v, b) ==
    [(IF b = END THEN SlipWrite(SlipWrite(v, ESCAPE), ESCAPED_END) ELSE SlipWrite(v, b))
        EXCEPT !.writeChecksum = Xor8(@, b)]

\* void writeEscaped(byte b)
writeEscaped(v, b) ==
    [(CASE b = END -> SlipWrite(SlipWrite(v, ESCAPE), ESCAPED_END)
        [] b = ESCAPE -> SlipWrite(SlipWrite(v, ESCAPE), ESCAPED_ESCAPE)
        [] OTHER -> SlipWrite(v, b))
        EXCEPT !.writeChecksum = Xor8(@, b)]

\* for (frameIndex = 0; frameIndex < frameLength; frameIndex++) writeEscaped(frame[frameIndex]);
\* the bytes lo .. hi of the frame are written in their order, one half after the other
RECURSIVE WriteFrame(_, _, _, _)
WriteFrame(v, data, lo, hi) ==
    IF lo > hi THEN v
    ELSE IF lo = hi THEN writeEscaped(v, data[lo])
    ELSE Only({ WriteFrame(v1, data, (lo + hi) \div 2 + 1, hi)
                : v1 \in {WriteFrame(v, data, lo, (lo + hi) \div 2)} })

\* byte sendFrame(byte* frame, byte frameLength)
sendFrame(v, data) ==
    Only({ [SlipWrite(writeEscaped(v2, v2.writeChecksum), END)
               EXCEPT !.writeSequence = U8(@ + 1)]
           : v2 \in {WriteFrame(writeEscaped([v EXCEPT !.writeChecksum = 0],
                                             v.writeSequence), data, 1, Len(data))} })

\* void sendError(byte eventId)
sendError(v, eventId) ==
    [sendFrame(v, <<FRAMES_ERROR, eventId>>) EXCEPT !.errors = Append(@, eventId)]

\* int readUnescaped(byte &b): b and the returned value are left in the fields b and ret
readUnescaped(v) ==
    Only({ IF v.escaped # 0
           THEN Only({ [v2 EXCEPT !.escaped = 0, !.readChecksum = Xor8(@, v2.b),
                                  !.got = Append(@, v2.b), !.ret = 1]
                       : v2 \in {CASE v1.b = ESCAPED_END -> [v1 EXCEPT !.b = END]
                                   [] v1.b = ESCAPED_ESCAPE -> [v1 EXCEPT !.b = ESCAPE]
                                   [] OTHER ->
                                        [sendError(v1, FRAMES_ERROR_UNEXPECTED_ESCAPE)
                                            EXCEPT !.state = WAITING_FOR_RECOVERY]} })
           ELSE IF v1.b = ESCAPE
           THEN [v1 EXCEPT !.escaped = 1, !.ret = 0]
           ELSE IF v1.b = END
           THEN [(CASE v1.state = WAITING_FOR_RECOVERY ->
                          [v1 EXCEPT !.readChecksum = 0, !.state = WAITING_FOR_SEQUENCE,
                                     !.resync = TRUE]
                    [] v1.state = WAITING_FOR_BYTECODE ->
                          [v1 EXCEPT !.state = PROCESS_PAYLOAD]
                    [] OTHER ->
                          [sendError(v1, FRAMES_ERROR_UNEXPECTED_END)
                              EXCEPT !.state = WAITING_FOR_RECOVERY])
                    EXCEPT !.got = <<>>, !.ret = 1]
           ELSE [v1 EXCEPT !.readChecksum = Xor8(@, v1.b), !.got = Append(@, v1.b),
                           !.ret = 1]
           : v1 \in {[v EXCEPT !.rx = Tail(@), !.b = Head(v.rx), !.resync = FALSE]} })

\* frameReceivedCallback(readSequence, frameIndex - 1, frameBuffer): the call is noted
\* with the bytes of the buffer it is given, as far as the frame has written them
Deliver(v) ==
    [v EXCEPT !.delivered =
        Append(@, [sequence |-> v.readSequence,
                   frameLength |-> U8(v.frameIndex - 1),
                   frame |-> [k \in 1 .. (IF v.frameIndex = 0 THEN 0 ELSE v.frameIndex - 1)
                              |-> v.frameBuffer[k - 1]]])]

\* case PROCESS_PAYLOAD without the test of the checksum
ProcessPayloadUnchecked(v) == [Deliver(v) EXCEPT !.state = WAITING_FOR_SEQUENCE]

\* case PROCESS_PAYLOAD of loop() (a frame-received callback is set)
ProcessPayload(v) ==
    [(IF v.readChecksum = 0
      THEN Deliver(v)
      ELSE [sendError(v, FRAMES_ERROR_CRC_MISMATCH) EXCEPT !.readChecksum = 0])
        EXCEPT !.state = WAITING_FOR_SEQUENCE]

\* case WAITING_FOR_SEQUENCE of loop(), with the default allocator
TakeSequence(v) ==
    Only({ [(IF v1.readSequence # v1.b
             THEN sendError([v1 EXCEPT !.readSequence = v1.b],
                            FRAMES_WARNING_OUT_OF_SEQUENCE)
             ELSE v1)
               EXCEPT !.frameBufferLength = frameBufferSourceLength, !.frameIndex = 0,
                      !.state = WAITING_FOR_BYTECODE]
           : v1 \in {[v EXCEPT !.sequence = v.b, !.readSequence = U8(@ + 1)]} })

\* case WAITING_FOR_BYTECODE of loop()
TakeByte(v) ==
    IF v.frameIndex = v.frameBufferLength
    THEN [sendError(v, FRAMES_ERROR_BUFFER_OVERFLOW)
             EXCEPT !.state = WAITING_FOR_RECOVERY, !.readChecksum = 0]
    ELSE [v EXCEPT !.frameBuffer[v.frameIndex] = v.b, !.frameIndex = U8(@ + 1)]

\* one iteration of the while (Serial.available()) of loop()
SlipLoop(v) ==
    Only({ IF v1.ret = 0 THEN v1
           ELSE CASE v1.state = WAITING_FOR_SEQUENCE -> TakeSequence(v1)
                  [] v1.state = WAITING_FOR_BYTECODE -> TakeByte(v1)
                  [] v1.state = PROCESS_PAYLOAD -> ProcessPayload(v1)
                  [] OTHER -> v1
           : v1 \in {readUnescaped(v)} })

\* the bytes sendFrame() writes for a payload when writeSequence is seq
Stream(seq, payload) ==
    sendFrame([writeChecksum |-> 0, writeSequence |-> seq, wire |-> <<>>], payload).wire

\* the same frame with a checksum that differs in the bits of flip
BadStream(seq, payload, flip) ==
    Only({ SlipWrite(writeEscaped(v2, Xor8(v2.writeChecksum, flip)), END).wire
           : v2 \in {WriteFrame(writeEscaped([writeChecksum |-> 0, writeSequence |-> seq,
                                              wire |-> <<>>], seq), payload, 1, Len(payload))} })

\* payloads the peer sends: none, the special characters, and the longest ones
SlipPayloads ==
    {<<>>, <<192, 219>>, <<219, 220, 1>>, <<1, 192>>,
     [k \in 1 .. frameBufferSourceLength - 1 |-> IF k % 2 = 0 THEN 219 ELSE k],
     [k \in 1 .. frameBufferSourceLength |-> k]}

\* stray bytes on the line: an END, an ESCAPE, a plain byte, two ENDs, and an ESCAPE
\* before a plain byte with the END that follows
SlipNoise == {<<END>>, <<ESCAPE>>, <<5>>, <<END, END>>, <<ESCAPE, 5, END>>}

\* the frame of the peer that is on the line, and the parser it met
Tx(payload, good) ==
    [payload |-> payload, n0 |-> Len(slip.delivered), state |-> slip.state,
     readChecksum |-> slip.readChecksum, escaped |-> slip.escaped,
     resync |-> slip.resync, good |-> good]

\* the peer sends a frame with sendFrame()
PeerSend ==
    /\ host = "slip"
    /\ slip.rx = <<>>
    /\ slip.sends < MaxSlipSends
    /\ \E payload \in SlipPayloads :
         slip' = [slip EXCEPT !.rx = Stream(slip.peerSequence, payload),
                              !.peerSequence = U8(@ + 1),
                              !.tx = Tx(payload, TRUE),
                              !.sends = @ + 1]
    /\ UNCHANGED <<memory, dstack, s, rstack, r, p, here, last, eventBuffer, loopword,
                   loopIterations, isrs, out, pc, ctx, steps, host, sent, oob, lastErr,
                   frame, attached, did, ever, defs, built, forgot, under, ticks>>

\* a frame of the peer arrives with a checksum falsified in the bits of flip
PeerSendBad ==
    /\ host = "slip"
    /\ slip.rx = <<>>
    /\ slip.sends < MaxSlipSends
    /\ \E payload \in SlipPayloads, flip \in {1, 192} :
         slip' = [slip EXCEPT !.rx = BadStream(slip.peerSequence, payload, flip),
                              !.peerSequence = U8(@ + 1),
                              !.tx = Tx(payload, FALSE),
                              !.sends = @ + 1]
    /\ UNCHANGED <<memory, dstack, s, rstack, r, p, here, last, eventBuffer, loopword,
                   loopIterations, isrs, out, pc, ctx, steps, host, sent, oob, lastErr,
                   frame, attached, did, ever, defs, built, forgot, under, ticks>>

\* stray bytes arrive
PeerNoise ==
    /\ host = "slip"
    /\ slip.rx = <<>>
    /\ slip.sends < MaxSlipSends
    /\ \E noise \in SlipNoise :
         slip' = [slip EXCEPT !.rx = noise, !.tx = NoTx, !.sends = @ + 1]
    /\ UNCHANGED <<memory, dstack, s, rstack, r, p, here, last, eventBuffer, loopword,
                   loopIterations, isrs, out, pc, ctx, steps, host, sent, oob, lastErr,
                   frame, attached, did, ever, defs, built, forgot, under, ticks>>

\* loop() of the transport: Serial.available(), one byte is read and handled
SlipReceive ==
    /\ host = "slip"
    /\ slip.rx # <<>>
    /\ slip' = SlipLoop(slip)
    /\ UNCHANGED <<memory, dstack, s, rstack, r, p, here, last, eventBuffer, loopword,
                   loopIterations, isrs, out, pc, ctx, steps, host, sent, oob, lastErr,
                   frame, attached, did, ever, defs, built, forgot, under, ticks>>

NextSlip ==
    \/ PeerSend
    \/ PeerSendBad
    \/ PeerNoise
    \/ SlipReceive

\* the transport is set up; the writeSequence of the peer is such that its next frames
\* carry the sequence numbers 0, END, ESCAPE and 255 (the increment wraps)
InitSlip ==
    /\ Booted("slip")
    /\ \E q \in {0, 192, 219, 255} : slip = [SlipBoot EXCEPT !.peerSequence = q]

\* the transport and a peer that sends frames and stray bytes
SpecSlip == InitSlip /\ [][NextSlip]_vars

TypeOK ==
    /\ pc \in {"idle", "run", "loopword", "recursion", "nullcall"}
    /\ ctx \in {"none", "frame", "loop", "isr"}
    /\ slip.state \in {WAITING_FOR_SEQUENCE, WAITING_FOR_BYTECODE, WAITING_FOR_RECOVERY}
    /\ slip.escaped \in {0, 1}
    /\ slip.readChecksum \in 0 .. 255
    /\ slip.frameIndex \in 0 .. frameBufferSourceLength
    /\ sent \in 0 .. Budget(host)

(* ---------------- the dictionary cursors ---------------- *)

\* the loop() that took the frame in has not hung
Alive == pc \notin {"recursion", "nullcall"}

\* C1: whatever frames the host sent and whatever bytecode they ran, forget with any
\* popped value included, here stays within 0 .. MEM_SIZE
C1_HereInBounds == 0 <= here /\ here <= MEM_SIZE

\* C2: between two calls of loop(), 0 <= last <= here
C2_LastBelowHere == pc = "idle" => (0 <= last /\ last <= here)

\* C3: an immediate frame (received at a here that is an address of memory) is executed
\* from the first byte of its own payload, and what is executed there is its payload
\* followed by the appended ret (0), no byte of an earlier frame
C3_ExecutesItsPayload ==
    (frame.got /\ frame.exec /\ Alive /\ 0 <= frame.start)
        => /\ frame.execAt = frame.start
           /\ frame.image = frame.payload \o <<0>>

\* C4: when an immediate frame (received at a here that is an address of memory) that ran
\* neither forget nor resetBoard has been executed, here is what it was before the first
\* byte of the frame was stored
C4_HereRestored ==
    (frame.got /\ frame.exec /\ pc = "loopword" /\ did \cap {"forget", "reset"} = {}
        /\ 0 <= frame.start)
        => here = frame.start

\* a definition frame has just been taken in, and loop() is about to look at the loop word
DefinitionTaken == frame.got /\ ~frame.exec /\ pc = "loopword"

\* C5 (as the specification states it): after a definition frame of n bytes received at
\* here = h, last = h, here = h + n, memory[h .. h+n) is the payload, nothing was executed
C5_LastAtStart ==
    DefinitionTaken
        => /\ last = frame.start
           /\ here = frame.start + Len(frame.payload)
           /\ Image(memory, frame.start, Len(frame.payload)) = frame.payload
           /\ frame.execAt = -1

\* C5: after a definition frame of n bytes received at here = h, with 0 <= h and
\* h + n <= MEM_SIZE, last = here = h + n (the byte after the new definition),
\* memory[h .. h+n) is the payload, and the intake executed none of it: no call of exec(),
\* the stacks and the instruction pointer as they were
C5_LastAfterDefinition ==
    (DefinitionTaken /\ 0 <= frame.start /\ frame.start + Len(frame.payload) <= MEM_SIZE)
        => /\ last = frame.start + Len(frame.payload)
           /\ here = last
           /\ Image(memory, frame.start, Len(frame.payload)) = frame.payload
           /\ frame.execAt = -1
           /\ ctx = "none"
           /\ steps = 0

\* a definition of several bytes was taken in behind an earlier one
C5_Witness ==
    /\ DefinitionTaken
    /\ frame.start > 0
    /\ Len(frame.payload) > 1
    /\ frame.start + Len(frame.payload) <= MEM_SIZE
    /\ Len(defs) > 1

\* the frame does not fit: its payload, and the ret of an immediate frame, would take here
\* past MEM_SIZE
Overflows(f) == f.start + Len(f.payload) + (IF f.exec THEN 1 ELSE 0) > MEM_SIZE

\* C6: a frame that does not fit is answered with VM_ERROR_OUT_OF_MEMORY and discarded:
\* loop() goes on, here and last are what they were before the frame, nothing is executed
\* and no definition is committed
C6_OverflowDiscarded ==
    (frame.got /\ 0 <= frame.start /\ Overflows(frame))
        => /\ Alive
           /\ lastErr.code = VM_ERROR_OUT_OF_MEMORY
           /\ here = frame.start
           /\ last = frame.last0
           /\ frame.execAt = -1

\* C7: as long as no executed code did store8, store16, forget or resetBoard, the bytes of
\* every committed definition are what they were when it was committed
C7_DefinitionsRetained ==
    (ever \cap {"store", "forget", "reset"} = {})
        => \A i \in DOMAIN defs :
               Image(memory, defs[i].at, Len(defs[i].bytes)) = defs[i].bytes

(* ---------------- errors ---------------- *)

\* the bytes of an event with a scalar value: length, id, and the value in no byte (0),
\* one byte (int8) or two
ScalarEvent(id, val) ==
    IF val = 0 THEN <<0, id>>
    ELSE IF val >= -128 /\ val <= 127 THEN <<1, id, U8(val)>>
    ELSE <<2, id, U8(U16(val) \div 256), U8(val)>>

\* C8: every error of the VM goes out as one event with id VM_EVENT_ID whose scalar value
\* is the error code
C8_ErrorEventCarriesCode ==
    lastErr.code \in 0 .. 4 => lastErr.bytes = ScalarEvent(VM_EVENT_ID, lastErr.code)

\* C9: error(code) always returns, after one event and with no error inside it, the data
\* stack being full or empty and here being at the end of memory included
C9_ErrorReturns == pc # "recursion"

\* C10: a push onto a full data stack stores nothing; the stack never holds more than
\* DATA_STACK_SIZE items
C10_DepthBounded == s + 1 <= DATA_STACK_SIZE

(* ---------------- stack underflow ---------------- *)

\* C11: the fragment {drop, eventOp}, executed as the first frame after boot (the data
\* stack is empty), sends as its first event the VM event of data-stack underflow: length
\* 1, id VM_EVENT_ID, body byte 2
C11_UnderflowEventFirst ==
    (frame.got /\ frame.exec /\ frame.payload = <<32, 8>> /\ sent = 1 /\ pc = "loopword")
        => /\ Len(out) >= 3
           /\ SubSeq(out, 1, 3) = <<1, VM_EVENT_ID, VM_ERROR_DATA_STACK_UNDERFLOW>>

(* ---------------- bounds of the arrays ---------------- *)

\* C12: a load or store at an address outside 0 .. MEM_SIZE - 1 raises OUT_OF_MEMORY and
\* touches nothing: no byte is ever stored outside memory[]
C12_MemoryBoundsChecked == "memory" \notin oob

\* C13: the return stack never holds more than RETURN_STACK_SIZE entries
C13_ReturnDepthBounded == r + 1 <= RETURN_STACK_SIZE

\* C14: the index of the data-stack top stays within -1 .. DATA_STACK_SIZE - 1 and no
\* primitive loads or stores a cell outside dstack[]
C14_DataStackInBounds ==
    /\ s \in -1 .. DATA_STACK_SIZE - 1
    /\ "dstack" \notin oob

(* ---------------- the interpreter ---------------- *)

\* the exec() of an immediate frame has returned into loop()
FrameReturned == frame.got /\ frame.exec /\ pc = "loopword"

\* C15: whenever exec() returns, p is -1: run() stops only by ret popping the sentinel
\* that exec() pushed
C15_ExitBySentinel == FrameReturned => p = -1

\* run() is about to interpret a two-byte call (b0 with the top bit set, then b1) that a
\* byte other than ret (0) follows
CallAt ==
    /\ pc = "run"
    /\ p \in 0 .. MEM_SIZE - 3
    /\ memory[p] >= 128
    /\ memory[p + 2] # 0

\* what the call leaves: one entry more on the return stack, which is the address of the
\* byte after b1, and p at ((b0 & 0x7F) << 8) | b1
CallDone ==
    /\ r' = r + 1
    /\ r' \in 0 .. RETURN_STACK_SIZE - 1
    /\ rstack'[r'] = p + 2
    /\ p' = (memory[p] % 128) * 256 + memory[p + 1]

\* C16 (as the specification states it): every two-byte call that is not followed by ret
\* adds exactly one entry to the return stack, the address of the byte after b1, and sets
\* p to ((b0 & 0x7F) << 8) | b1
C16_CallAlwaysPushes == [][CallAt => CallDone]_vars

\* C16: a two-byte call that is not followed by ret, interpreted while the return stack
\* holds fewer than RETURN_STACK_SIZE entries, adds exactly one entry to the return
\* stack, the address of the byte after b1, and sets p to ((b0 & 0x7F) << 8) | b1
C16_CallPushesWhenRoom == [][(CallAt /\ r + 1 < RETURN_STACK_SIZE) => CallDone]_vars

\* the call of an immediate frame has been interpreted: its return address is on the
\* return stack above the sentinel, and p is at the target
C16_Witness ==
    /\ pc = "run"
    /\ frame.got /\ frame.exec /\ frame.payload = <<128, 0, 59>>
    /\ frame.execAt = frame.start
    /\ frame.start > 0
    /\ steps = 1
    /\ r = 1 /\ rstack[0] = -1 /\ rstack[1] = frame.start + 2
    /\ p = 0

\* run() is about to interpret a two-byte call that ret (0) follows
TailCallAt ==
    /\ pc = "run"
    /\ p \in 0 .. MEM_SIZE - 3
    /\ memory[p] >= 128
    /\ memory[p + 2] = 0

\* the interpreter is at the start of the word W == call W, ret that lies at address 0,
\* with the sentinel alone on the return stack
InW ==
    /\ pc = "run"
    /\ memory[0] = 128 /\ memory[1] = 0 /\ memory[2] = 0
    /\ p = 0
    /\ r = 0 /\ rstack[0] = -1

\* C17: a call that ret follows pushes nothing: the return stack is as it was, p is at the
\* target, nothing is sent and the interpreter goes on.  Hence the word W == call W, ret
\* is never left: from its start one step leads back to its start, at the same depth of
\* the return stack and with no RETURN_STACK_OVERFLOW.
C17_TailCallKeepsDepth ==
    [][ /\ TailCallAt => /\ r' = r
                         /\ rstack' = rstack
                         /\ p' = (memory[p] % 128) * 256 + memory[p + 1]
                         /\ out' = out
                         /\ lastErr' = lastErr
                         /\ pc' = "run"
        /\ InW => InW' ]_vars

\* W has been running for more steps than the return stack has cells
C17_Witness ==
    /\ InW
    /\ steps > 2 * RETURN_STACK_SIZE
    /\ lastErr = NoErr
    /\ out = <<>>

(* ---------------- literals ---------------- *)

\* the first instruction of an immediate frame, which is lit8 with an operand, has been
\* interpreted on a data stack that had room
Lit8Done ==
    /\ pc = "run"
    /\ frame.got /\ frame.exec
    /\ frame.execAt = frame.start
    /\ frame.image = frame.payload \o <<0>>
    /\ Len(frame.payload) >= 2
    /\ frame.payload[1] = 1
    /\ steps = 1
    /\ s \in 0 .. DATA_STACK_SIZE - 1

\* C18: lit8 pushes its operand byte sign-extended to 16 bits (0x80..0xFF give -128..-1)
\* and leaves p behind the operand
C18_Lit8SignExtends ==
    Lit8Done => /\ dstack[s] = S8(frame.payload[2])
                /\ p = frame.execAt + 2

(* ---------------- events ---------------- *)

\* run() is about to interpret eventOp with the id on top of the data stack and the value
\* below it, both inside the array
EventOpAt ==
    /\ pc = "run"
    /\ p \in 0 .. MEM_SIZE - 1
    /\ memory[p] = 8
    /\ s \in 1 .. DATA_STACK_SIZE - 1

\* the bytes of the event that eventOp is to send
EventOpBytes == ScalarEvent(U8(dstack[s]), dstack[s - 1])

\* the event has gone out, alone; here is where it was and the data stack has lost the two
\* operands and nothing else
EventOpDone ==
    /\ out' = out \o EventOpBytes
    /\ here' = here
    /\ s' = s - 2

\* C19 (as the specification states it): with room on the data stack, eventOp sends
\* exactly the scalar event of its id and value, whatever here is
C19_EventAnywhere == [][EventOpAt => EventOpDone]_vars

\* C19: with room on the data stack and with the id and body bytes fitting into memory at
\* here (0 <= here, here + 1 + length of the body <= MEM_SIZE), eventOp sends exactly
\* [0, id] for the value 0, [1, id, value] for a value in -128 .. 127, [2, id, high byte,
\* low byte] otherwise, and leaves here and the data stack below the operands as before
C19_EventEncoding ==
    [][(EventOpAt /\ 0 <= here /\ here + Len(EventOpBytes) - 1 <= MEM_SIZE)
           => EventOpDone]_vars

\* eventOp has sent event(200, 300) from the second frame of the host: two body bytes,
\* the high one first, behind an id above 127
C19_Witness ==
    /\ pc = "run"
    /\ frame.got /\ frame.exec /\ frame.payload = <<2, 1, 44, 1, 200, 8>>
    /\ out = <<2, 200, 1, 44>>
    /\ here = frame.start
    /\ s = -1
    /\ sent = 2

\* run() is about to interpret eventFooter, after an eventHeader and body calls with
\* nothing in between
FooterAt ==
    /\ pc = "run"
    /\ p \in 0 .. MEM_SIZE - 1
    /\ memory[p] = 7
    /\ built # <<>>

\* C20: eventHeader(id), any eventBody8/eventBody16 calls that write n body bytes, and
\* eventFooter, with no error in between, send exactly [n, id, the body bytes in the
\* order written, 16-bit values high byte first], and here is where it was
C20_StructuredEvent ==
    [][FooterAt => /\ out' = out \o <<Len(built) - 1>> \o built
                   /\ here' = here]_vars

(* ---------------- forget ---------------- *)

\* run() is about to interpret forget with its operand on the data stack
ForgetAt ==
    /\ pc = "run"
    /\ p \in 0 .. MEM_SIZE - 1
    /\ memory[p] = 41
    /\ s \in 0 .. DATA_STACK_SIZE - 1

\* forget has popped addr and set here to it exactly when addr < here; no byte of memory
\* has changed
ForgetDone ==
    /\ here' = (IF dstack[s] < here THEN dstack[s] ELSE here)
    /\ s' = s - 1
    /\ memory' = memory

\* loop() takes in a definition frame, the last thing that moved here being a forget
DefineAfterForget ==
    /\ pc = "idle"
    /\ forgot # <<>>
    /\ sent' = sent + 1
    /\ ~frame'.exec

\* the definition lies in memory from the forgotten address on, and here is behind it
StoredAtForgotten ==
    /\ frame'.start = forgot[1]
    /\ here' = forgot[1] + Len(frame'.payload)
    /\ Image(memory', forgot[1], Len(frame'.payload)) = frame'.payload

\* C21: forget pops addr and sets here = addr exactly when addr < here, changing no byte of
\* memory; and the definition frame received after a forget(a) that took effect is stored
\* from a on: memory[a .. here) is its payload
C21_ForgetThenDefine ==
    [][ /\ ForgetAt => ForgetDone
        /\ DefineAfterForget => StoredAtForgotten ]_vars

(* ---------------- the loop word ---------------- *)

\* loop() returns from the run of the loop word
TickEnds == ctx = "loop" /\ pc = "run" /\ pc' = "idle"

\* run() is about to interpret loopTicks in the k-th run of the loop word since an
\* immediate frame executed setLoop, with room on the data stack
LoopTicksAt ==
    /\ pc = "run"
    /\ ctx = "loop"
    /\ p \in 0 .. MEM_SIZE - 1
    /\ memory[p] = 45
    /\ s \in -1 .. DATA_STACK_SIZE - 2
    /\ ticks.k >= 1

\* loopTicks has pushed (k - 1) mod 2^15
TickPushed ==
    /\ s' = s + 1
    /\ dstack'[s'] = (ticks.k - 1) % 32768
    /\ dstack'[s'] \in 0 .. 32767

\* C22 (as the specification states it): the run of the loop word is followed by one
\* increment of loopIterations, and loopTicks in the k-th run of the loop word after a
\* setLoop from an immediate frame pushes (k - 1) mod 2^15
C22_TicksCountRuns ==
    [][ /\ TickEnds => loopIterations' = W16(loopIterations + 1)
        /\ LoopTicksAt => TickPushed ]_vars

\* C22: the run of the loop word is followed by one increment of loopIterations, and
\* loopTicks in the k-th run of the loop word after a setLoop from an immediate frame
\* pushes (k - 1) mod 2^15, a value in 0 .. 32767, as long as the loop word has not itself
\* executed setLoop or resetBoard since
C22_TicksCountRunsUnlessReset ==
    [][ /\ TickEnds => loopIterations' = W16(loopIterations + 1)
        /\ (LoopTicksAt /\ ~ticks.reset) => TickPushed ]_vars

\* loopTicks has pushed 0 in run 32769: loopIterations wrapped from INT16_MAX to INT16_MIN
C22_Witness ==
    /\ pc = "run"
    /\ ctx = "loop"
    /\ ticks = [k |-> 32769, reset |-> FALSE, base |-> 32767]
    /\ loopIterations = -32768
    /\ steps = 1
    /\ s = 0 /\ dstack[0] = 0

(* ---------------- resetBoard ---------------- *)

\* run() is about to interpret resetBoard
ResetAt ==
    /\ pc = "run"
    /\ p \in 0 .. MEM_SIZE - 1
    /\ memory[p] = 48

\* what resetBoard leaves: the data stack empty, the dictionary and the loop word gone;
\* memory, the return stack and the ISR table as they were, p behind the instruction and
\* run() going on
ResetDone ==
    /\ s' = -1
    /\ here' = 0 /\ last' = 0
    /\ loopword' = -1 /\ loopIterations' = 0
    /\ memory' = memory
    /\ rstack' = rstack /\ r' = r
    /\ isrs' = isrs
    /\ p' = p + 1
    /\ out' = out /\ lastErr' = lastErr
    /\ pc' = "run"

\* the exec() of the immediate frame {resetBoard}, which was entered at the frame's first
\* byte, has returned
ResetFrameReturned ==
    /\ FrameReturned
    /\ frame.payload = <<48>>
    /\ frame.execAt = frame.start
    /\ frame.image = frame.payload \o <<0>>

\* C23: resetBoard empties the data stack and sets here = last = 0, loopword = -1,
\* loopIterations = 0, leaving memory, the return stack, p and the ISR table alone; the
\* immediate frame {resetBoard} runs on to its ret, which pops the sentinel, and exec()
\* returns with no error
C23_ResetBoardEffect ==
    [][ /\ ResetAt => ResetDone
        /\ ResetFrameReturned' =>
               (p' = -1 /\ r' = -1 /\ out' = <<>> /\ here' = 0 /\ last' = 0) ]_vars

\* the frame {resetBoard}, received behind a definition, has been executed and has
\* returned
C23_Witness ==
    /\ ResetFrameReturned
    /\ frame.start > 0
    /\ Len(defs) > 0
    /\ "reset" \in did
    /\ p = -1 /\ s = -1 /\ here = 0 /\ last = 0 /\ loopword = -1

(* ---------------- the boot event ---------------- *)

\* bytes, read as a run of events [len, id, len body bytes], holds an event whose id is
\* BOOT_EVENT_ID
RECURSIVE HasBootId(_)
HasBootId(bytes) ==
    IF Len(bytes) < 2 THEN FALSE
    ELSE \/ bytes[2] = BOOT_EVENT_ID
         \/ HasBootId(SubSeq(bytes, bytes[1] + 3, Len(bytes)))

\* loop() has taken a frame in: what has been sent so far in this call was sent by the
\* intake, no instruction of the frame having been interpreted
IntakeDone == sent' = sent + 1

UnboundAt ==
    /\ pc = "run"
    /\ p \in 0 .. MEM_SIZE - 1
    /\ memory[p] \in 60 .. MAX_PRIMITIVES - 1

\* nothing has changed but p, which is behind the opcode, and run() goes on
NoOpDone ==
    /\ p' = p + 1
    /\ pc' = "run"
    /\ UNCHANGED <<memory, dstack, s, rstack, r, here, last, eventBuffer, loopword,
                   loopIterations, isrs, out, lastErr, oob, attached>>

\* C25: an opcode with the top bit clear indexes the instruction table within
\* 0 .. MAX_PRIMITIVES - 1, and executing one that was never bound (60 .. 127) is a no-op:
\* p moves behind it and nothing else changes
C25_UnboundIsNoOp == [][UnboundAt => NoOpDone]_vars

(* ---------------- interrupts ---------------- *)

\* run() is about to interpret attachISR with mode, line and word on the data stack, the
\* line being one of 0 .. MAX_INTERRUPTS - 1
AttachAt ==
    /\ pc = "run"
    /\ p \in 0 .. MEM_SIZE - 1
    /\ memory[p] = 54
    /\ s \in 2 .. DATA_STACK_SIZE - 1
    /\ dstack[s - 1] \in 0 .. MAX_INTERRUPTS - 1

\* the word is bound to the line and the platform holds the mode for that line; every
\* other line is as it was
AttachDone ==
    /\ isrs' = [isrs EXCEPT ![dstack[s - 1]] = dstack[s - 2]]
    /\ attached' = [attached EXCEPT ![dstack[s - 1]] = U8(dstack[s])]
    /\ "isrs" \notin oob'

\* C26: attachISR(word, line, mode) sets isrs[line] = word and attaches the platform
\* interrupt of that line alone, in the given mode; the other lines keep their handler
\* and mode, and the ISR table is accessed within 0 .. MAX_INTERRUPTS - 1
C26_AttachOnlyLine == [][AttachAt => AttachDone]_vars

(* ---------------- quotations ---------------- *)

\* run() is about to interpret choice with pred, t and f (f on top) on the data stack
ChoiceAt ==
    /\ pc = "run"
    /\ p \in 0 .. MEM_SIZE - 1
    /\ memory[p] = 43
    /\ s \in 2 .. DATA_STACK_SIZE - 1

\* the three operands are gone, p is at t if pred # 0 and at f if pred = 0, and the
\* address of the instruction behind choice is the one new entry of the return stack;
\* nothing is sent
ChoiceDone ==
    /\ s' = s - 3
    /\ p' = (IF dstack[s - 2] # 0 THEN dstack[s - 1] ELSE dstack[s])
    /\ r' = r + 1
    /\ r' \in 0 .. RETURN_STACK_SIZE - 1
    /\ rstack' = [rstack EXCEPT ![r'] = p + 1]
    /\ out' = out
    /\ lastErr' = lastErr

\* run() is about to interpret ret with an entry on the return stack
RetAt ==
    /\ pc = "run"
    /\ p \in 0 .. MEM_SIZE - 1
    /\ memory[p] = 0
    /\ r \in 0 .. RETURN_STACK_SIZE - 1

\* ret has taken the top entry of the return stack into p
RetDone ==
    /\ p' = rstack[r]
    /\ r' = r - 1
    /\ rstack' = rstack

\* C27 (as the specification states it): choice pops f, t and pred, continues in exactly
\* one quotation, t if pred # 0 and f if pred = 0, and pushes the address of the
\* instruction behind it, which the ret of the quotation takes back: the quotation over,
\* run() is behind choice with the return stack as deep as before
C27_ChoiceAlways ==
    [][ /\ ChoiceAt => ChoiceDone
        /\ RetAt => RetDone ]_vars

\* C27: the same for a choice interpreted while the return stack holds fewer than
\* RETURN_STACK_SIZE entries
C27_ChoiceWhenRoom ==
    [][ /\ (ChoiceAt /\ r + 1 < RETURN_STACK_SIZE) => ChoiceDone
        /\ RetAt => RetDone ]_vars

\* with pred = 0 the quotation f (lit8 9) has run and its ret has brought run() behind
\* the choice of the frame, the return stack holding the sentinel alone
C27_Witness ==
    /\ pc = "run"
    /\ frame.got /\ frame.exec
    /\ frame.payload = <<1, 0, 3, 3, 1, 7, 0, 3, 3, 1, 9, 0, 43>>
    /\ frame.execAt = frame.start
    /\ steps = 6
    /\ p = frame.start + 13
    /\ r = 0 /\ rstack[0] = -1
    /\ s = 0 /\ dstack[0] = 9

\* the exec() of an immediate frame made of lit8 18 and the fragment lit8 1, quote n,
\* lit8 7, ret, quote n, lit8 9, ret, choice, eventOp has returned; the frame was entered
\* at its first byte with the data stack empty (the fragment takes all four cells)
ChoiceEventReturned(n) ==
    /\ FrameReturned
    /\ frame.payload = <<1, 18, 1, 1, 3, n, 1, 7, 0, 3, n, 1, 9, 0, 43, 8>>
    /\ frame.execAt = frame.start
    /\ frame.image = frame.payload \o <<0>>
    /\ frame.s0 = -1

\* C28 (as the specification states it): the fragment with quotations of length 2, run
\* with an event id (18) on the data stack, runs the quotation that pushes 7 and sends
\* one event of that id with the body 7
C28_ChoiceEventAsStated == ChoiceEventReturned(2) => out = <<1, 18, 7>>

\* C28: the fragment with quotations of length 3 (lit8 7 and the ret behind it), run
\* with a value (18) on the data stack, runs the quotation that pushes 7, not the one
\* that pushes 9, and sends one event, whose id is 7 and whose body is the value
C28_ChoiceEventLength3 ==
    ChoiceEventReturned(3) => /\ out = <<1, 7, 18>>
                              /\ s = -1
                              /\ p = -1
                              /\ lastErr = NoErr

\* the frame with quotations of length 3 has been executed and has sent its event
C28_Witness ==
    /\ ChoiceEventReturned(3)
    /\ out = <<1, 7, 18>>
    /\ steps = 9

(* ---------------- dup, drop ---------------- *)

\* run() is about to interpret dup, which drop follows, on a data stack that is not empty
DupDropAt ==
    /\ pc = "run"
    /\ p \in 0 .. MEM_SIZE - 2
    /\ memory[p] = 33
    /\ memory[p + 1] = 32
    /\ s \in 0 .. DATA_STACK_SIZE - 1

\* dup has put one item more on the stack and left the items below it alone; it has
\* changed nothing else and stored nothing outside dstack[], no error is reported and
\* run() is at the drop
DupDone ==
    /\ s' = s + 1
    /\ \A k \in 0 .. s : dstack'[k] = dstack[k]
    /\ out' = out
    /\ lastErr' = lastErr
    /\ p' = p + 1
    /\ pc' = "run"
    /\ UNCHANGED <<memory, rstack, r, here, last, oob>>

\* run() is about to interpret the drop behind a dup
DropAt ==
    /\ pc = "run"
    /\ p \in 1 .. MEM_SIZE - 1
    /\ memory[p] = 32
    /\ memory[p - 1] = 33

\* drop has taken one item off and changed nothing else
DropDone ==
    /\ s' = s - 1
    /\ dstack' = dstack
    /\ out' = out
    /\ lastErr' = lastErr
    /\ UNCHANGED <<memory, rstack, r, here, last>>

NextAt ==
    /\ pc = "run"
    /\ p \in 0 .. MEM_SIZE - 2
    /\ memory[p] = 58
    /\ r \in 0 .. RETURN_STACK_SIZE - 1

\* with a counter above 1 next goes back rel bytes before its opcode, the counter one
\* less; otherwise it takes the counter off the return stack and goes on behind its
\* operand.  It changes nothing else and sends nothing.
NextDone ==
    /\ IF rstack[r] > 1
       THEN /\ p' = p - memory[p + 1]
            /\ r' = r
            /\ rstack' = [rstack EXCEPT ![r] = @ - 1]
       ELSE /\ p' = p + 2
            /\ r' = r - 1
            /\ rstack' = rstack
    /\ s' = s
    /\ dstack' = dstack
    /\ out' = out

\* run() has left the loop of an immediate frame lit8 n, pushr, [nop, next 1], which was
\* entered at its first byte
LoopLeft(n) ==
    /\ pc = "run"
    /\ frame.got /\ frame.exec
    /\ frame.payload = <<1, n, 38, 59, 58, 1>>
    /\ frame.execAt = frame.start
    /\ frame.image = frame.payload \o <<0>>
    /\ frame.s0 < DATA_STACK_SIZE - 1
    /\ p = frame.start + 6

\* the body has been executed k times: lit8 and pushr, then k times nop and next
BodyRan(k) == steps = 2 + 2 * k /\ r = 0 /\ rstack[0] = -1

\* C30 (as the specification states it): a loop with counter n on the return stack runs
\* its body max(n, 1) times and ends: next goes back with n - 1 while n > 1, and else
\* falls through with the counter taken off the return stack
C30_NextAnyCounter ==
    /\ [](LoopLeft(3) => BodyRan(3))
    /\ [](LoopLeft(0) => BodyRan(1))
    /\ [][NextAt => NextDone]_vars

\* C30: the same for a counter n other than INT16_MIN
C30_NextCountsDown ==
    /\ [](LoopLeft(3) => BodyRan(3))
    /\ [](LoopLeft(0) => BodyRan(1))
    /\ [][(NextAt /\ rstack[r] # -32768) => NextDone]_vars

\* the loop of three rounds has been left after its third round
C30_Witness ==
    /\ LoopLeft(3)
    /\ BodyRan(3)
    /\ s = frame.s0

(* ---------------- events and the executing frame ---------------- *)

\* run() is about to interpret, inside an immediate frame that was entered at its own
\* first byte, an instruction that builds or sends an event
EmitsInFrame ==
    /\ pc = "run"
    /\ ctx = "frame"
    /\ frame.got /\ frame.exec
    /\ frame.execAt = frame.start
    /\ p \in frame.start .. frame.start + Len(frame.payload)
    /\ p \in 0 .. MEM_SIZE - 1
    /\ \/ memory[p] \in {4, 5, 6, 7, 8}
       \/ out' # out

\* the bytes of the frame from the next instruction on, its ret included, are as before
RestSpared ==
    \A a \in 0 .. MEM_SIZE - 1 :
        (p' >= frame.start /\ a >= p' /\ a <= frame.start + Len(frame.payload))
            => memory'[a] = memory[a]

\* C33: an event built or sent while an immediate frame executes, error events included,
\* overwrites no byte of the frame that is still to be executed
C33_EventSparesFrame == [][EmitsInFrame => RestSpared]_vars

(* ---------------- an error inside a structured event ---------------- *)

\* run() is about to interpret, with a structured event begun and not yet sent, an
\* instruction other than eventFooter and eventOp which sends something: an error event
ErrorWhileBuilding ==
    /\ pc = "run"
    /\ built # <<>>
    /\ p \in 0 .. MEM_SIZE - 1
    /\ memory[p] \notin {7, 8}
    /\ Len(out') > Len(out)

\* the id and the body bytes of the event begun are where eventHeader and eventBody put
\* them, and the cursor is behind them
EventKept ==
    /\ here' = here
    /\ eventBuffer' >= here + Len(built)
    /\ \A k \in 1 .. Len(built) :
           here + k - 1 \in 0 .. MEM_SIZE - 1 => memory'[here + k - 1] = built[k]

\* C34: an error raised between eventHeader and eventFooter leaves the id and the body
\* bytes buffered so far, and the cursor behind them, as they were
C34_ErrorKeepsEvent == [][ErrorWhileBuilding => EventKept]_vars

(* ---------------- a body without a header ---------------- *)

\* run() is about to interpret eventBody8 or eventBody16, with a value to pop, in the
\* first frame after boot, which holds no eventHeader; nothing has been sent, stored or
\* forgotten and no error has been raised since boot
BodyBeforeHeader ==
    /\ pc = "run"
    /\ ctx = "frame"
    /\ sent = 1
    /\ frame.got /\ frame.exec
    /\ \A k \in 1 .. Len(frame.payload) : frame.payload[k] # 4
    /\ ever = {} /\ did = {}
    /\ lastErr = NoErr
    /\ out = <<>>
    /\ p \in frame.start .. frame.start + Len(frame.payload) - 1
    /\ memory[p] \in {5, 6}
    /\ s \in 0 .. DATA_STACK_SIZE - 1

\* the instruction raised OUT_OF_MEMORY and stored nothing
RefusedBody ==
    /\ lastErr'.code = VM_ERROR_OUT_OF_MEMORY
    /\ Len(out') > 0
    /\ memory' = memory

\* C35: eventBody8 and eventBody16 before any eventHeader of the program raise
\* OUT_OF_MEMORY and write no byte into the dictionary
C35_BodyNeedsHeader == [][BodyBeforeHeader => RefusedBody]_vars

(* ---------------- the super-loop and the interrupts ---------------- *)

\* the handler of an interrupt that struck loop() inside the run() of a word returns,
\* and it leaves the data stack, the dictionary and the output as it found them
IsrReturns ==
    /\ ctx = "isr"
    /\ under.pc = "run"
    /\ under'.pc = "none"
    /\ pc' \notin {"recursion", "nullcall"}
    /\ s' = under.s
    /\ dstack' = under.dstack
    /\ memory' = under.memory
    /\ here' = under.here
    /\ last' = under.last
    /\ out' = under.out

\* the interrupted word is under way where it was, with the return stack it had
Resumed ==
    /\ pc' = "run"
    /\ ctx' = under.ctx
    /\ p' = under.p
    /\ r' = under.r
    /\ rstack' = under.rstack

\* a run of the loop word begins
LoopWordBegins == ctx # "loop" /\ ctx' = "loop" /\ under.pc = "none"

\* loop() is between its two parts, and an immediate frame it took in has run to its end
FrameServed ==
    /\ pc = "loopword"
    /\ (frame.got /\ frame.exec) => p < 0

\* the handler of an interrupt that struck the loop word returns
LoopWordStruck ==
    /\ ctx = "isr"
    /\ under.pc = "run"
    /\ under.ctx = "loop"
    /\ under.p >= 0
    /\ under'.pc = "none"
    /\ pc' \notin {"recursion", "nullcall"}

\* C31: in each call of loop() the frame, if any, is stored and, if immediate, executed
\* before the loop word runs, and the loop word then runs to completion: a run of the
\* loop word begins only when the frame has been served, and once begun it is still
\* under way after whatever else happened in between
C31_TickRunsToCompletion ==
    /\ [][LoopWordBegins => FrameServed]_vars
    /\ [][LoopWordStruck => (pc' = "run" /\ ctx' = "loop")]_vars

\* C32: when the stack-neutral handler of an interrupt that struck a word returns, the
\* word goes on from the same p with the same return stack
C32_HandlerResumes == [][IsrReturns => Resumed]_vars

\* exec() is entered: for an immediate frame taken in without an error event, for the
\* loop word, for an interrupt handler
ExecEntered ==
    \/ pc = "idle" /\ pc' = "run" /\ ctx' = "frame" /\ out' = <<>>
    \/ pc = "loopword" /\ pc' = "run" /\ ctx' = "loop"
    \/ under.pc = "none" /\ under'.pc # "none" /\ pc' = "run"

\* C36: exec() leaves the data stack alone: the immediate frame, the run of the loop
\* word and the interrupt handler it enters find the data stack as it was left
C36_ExecKeepsDataStack == [][ExecEntered => (s' = s /\ dstack' = dstack)]_vars

\* an interrupt handler has been entered and finds the two values an earlier immediate
\* frame left
C36_Witness ==
    /\ pc = "run"
    /\ ctx = "isr"
    /\ steps = 0
    /\ sent >= 3
    /\ s = 1
    /\ dstack[0] = 300
    /\ dstack[1] = 7


(* ---------------- C37 .. C39: the SLIP-framed transport ---------------- *)

\* a frame written by sendFrame() has been read to its last byte
FrameRead == slip.tx.n0 >= 0 /\ slip.tx.good /\ slip.rx = <<>>

\* the frame-received callback was called once for that frame, with the payload, its
\* length and the sequence number of the frame, and the parser waits for the next frame
FrameDelivered ==
    /\ Len(slip.delivered) = slip.tx.n0 + 1
    /\ slip.delivered[Len(slip.delivered)].frame = slip.tx.payload
    /\ slip.delivered[Len(slip.delivered)].frameLength = Len(slip.tx.payload)
    /\ slip.delivered[Len(slip.delivered)].sequence = U8(slip.peerSequence - 1)
    /\ slip.state = WAITING_FOR_SEQUENCE
    /\ slip.readChecksum = 0

\* C37 as the specification states it: every payload that fits the receive buffer, sent
\* with sendFrame() to a receiver in WAITING_FOR_SEQUENCE with readChecksum = 0, is
\* handed to the frame-received callback exactly once, identical and with its length,
\* and the receiver is left in WAITING_FOR_SEQUENCE with readChecksum = 0
C37_RoundTripAsStated ==
    (/\ FrameRead
     /\ slip.tx.state = WAITING_FOR_SEQUENCE
     /\ slip.tx.readChecksum = 0
     /\ Len(slip.tx.payload) <= frameBufferSourceLength)
        => FrameDelivered

\* C37: a payload of at most frameBufferSourceLength - 1 bytes (the checksum byte is
\* stored in the receive buffer too), sent with sendFrame() to a receiver in
\* WAITING_FOR_SEQUENCE with readChecksum = 0 and no escape pending, is handed to the
\* frame-received callback exactly once, identical and with its length, and the
\* receiver is left in WAITING_FOR_SEQUENCE with readChecksum = 0
C37_RoundTrip ==
    (/\ FrameRead
     /\ slip.tx.state = WAITING_FOR_SEQUENCE
     /\ slip.tx.readChecksum = 0
     /\ slip.tx.escaped = 0
     /\ Len(slip.tx.payload) < frameBufferSourceLength)
        => FrameDelivered

\* a payload with both special characters made the round trip under a sequence number
\* that is a special character too
C37_Witness ==
    /\ FrameRead
    /\ slip.tx.state = WAITING_FOR_SEQUENCE
    /\ slip.tx.readChecksum = 0
    /\ slip.tx.escaped = 0
    /\ slip.tx.payload = <<192, 219>>
    /\ slip.sequence = END
    /\ FrameDelivered

\* the longest payload that makes the round trip
C37_WitnessLongest ==
    /\ FrameRead
    /\ slip.tx.state = WAITING_FOR_SEQUENCE
    /\ slip.tx.escaped = 0
    /\ Len(slip.tx.payload) = frameBufferSourceLength - 1
    /\ FrameDelivered

\* a well-formed frame has been read to its last byte, and the byte read before it was
\* the END that ended a recovery
FrameAfterRecovery ==
    /\ FrameRead
    /\ slip.tx.resync
    /\ Len(slip.tx.payload) < frameBufferSourceLength

\* C38: after a frame was invalidated and the parser went to WAITING_FOR_RECOVERY, the
\* next END only resynchronises: the well-formed frame that follows it is taken from its
\* own sequence byte and delivered once, with exactly its own payload
C38_RecoveryDelivers ==
    FrameAfterRecovery
        => /\ Len(slip.delivered) = slip.tx.n0 + 1
           /\ slip.delivered[Len(slip.delivered)].frame = slip.tx.payload
           /\ slip.delivered[Len(slip.delivered)].sequence = U8(slip.peerSequence - 1)


\* the XOR of the bytes lo .. hi of a sequence
RECURSIVE XorAll(_, _, _)
XorAll(bytes, lo, hi) ==
    IF lo > hi THEN 0
    ELSE IF lo = hi THEN bytes[lo]
    ELSE Xor8(XorAll(bytes, lo, (lo + hi) \div 2), XorAll(bytes, (lo + hi) \div 2 + 1, hi))

\* the END of a frame is about to be read, and the byte before it is not the XOR of the
\* unescaped bytes of the frame before that one
BadFrameEnds ==
    /\ slip.rx # <<>>
    /\ Head(slip.rx) = END
    /\ slip.escaped = 0
    /\ slip.state = WAITING_FOR_BYTECODE
    /\ Len(slip.got) >= 2
    /\ slip.got[Len(slip.got)] # XorAll(slip.got, 1, Len(slip.got) - 1)

\* C39: a frame whose trailing checksum byte differs from the XOR of its unescaped
\* sequence and payload bytes is not passed to the frame-received callback; a
\* CRC-mismatch protocol error is sent, and the parser is in WAITING_FOR_SEQUENCE with
\* readChecksum = 0
C39_BadChecksumRefused ==
    [][BadFrameEnds
        => /\ slip'.delivered = slip.delivered
           /\ slip'.errors = Append(slip.errors, FRAMES_ERROR_CRC_MISMATCH)
           /\ slip'.wire = slip.wire \o
                 Stream(slip.writeSequence, <<FRAMES_ERROR, FRAMES_ERROR_CRC_MISMATCH>>)
           /\ slip'.state = WAITING_FOR_SEQUENCE
           /\ slip'.readChecksum = 0]_vars

\* a frame of a payload with special characters came with a falsified checksum: nothing
\* was delivered, and the error was sent
C39_Witness ==
    /\ slip.tx.n0 >= 0
    /\ ~slip.tx.good
    /\ slip.tx.state = WAITING_FOR_SEQUENCE
    /\ slip.tx.escaped = 0
    /\ slip.tx.payload = <<192, 219>>
    /\ slip.rx = <<>>
    /\ slip.delivered = <<>>
    /\ slip.errors # <<>>
    /\ slip.errors[Len(slip.errors)] = FRAMES_ERROR_CRC_MISMATCH
    /\ slip.state = WAITING_FOR_SEQUENCE
    /\ slip.readChecksum = 0
====
